---- MODULE Spec2Model ----
(***************************************************************************)
(* Backend pool scheduler of the face_change_api gateway:                  *)
(*   app/services/load_balancer.py  ComfyUILoadBalancer (registry, health  *)
(*                                  check loop, selector, task accounting) *)
(*   app/services/tool_pool.py      ComfyUIToolPool                        *)
(*   app/routers/images.py, videos.py, servers.py   the handlers           *)
(*   app/main.py                    shutdown_event                         *)
(*                                                                         *)
(* Threads of one worker process:                                          *)
(*   - the asyncio event loop, which runs the async def handlers         *)
(*     process_image / process_video / shutdown_event.  Their bodies hold  *)
(*     no await, so one handler body runs to its end before the loop     *)
(*     takes the next one (variable loop);                                 *)
(*   - the thread pool, which runs the def handlers of servers.py        *)
(*     (variable admin_tasks);                                             *)
(*   - the daemon thread of check_loop (the hc_ variables).               *)
(* Every with self.lock: block is one atomic step; network I/O happens   *)
(* between steps.                                                          *)
(***************************************************************************)
EXTENDS Integers, Sequences, FiniteSets

\* ---------------------------------------------------------------- bounds
NumRequests == 2          \* process_image / process_video requests issued
MaxQueue == 1             \* most jobs, running and pending together, a backend reports
MaxErrorCount == 3        \* probe failures in a row the environment produces
MaxAdminCalls == 2        \* /servers/add and /servers/remove calls issued
MaxTimeout == 2           \* longest timeout, in clock ticks, a watch is called with
MaxNodes == 2             \* most nodes of a workflow graph

\* ------------------------------------------------------ program constants
max_error_count == 3

Addrs == {"A", "B"}
comfyui_servers == <<"A", "B">>
TemplateFiles == {"t1"}
RequestedTemplates == TemplateFiles \cup {"missing"}
\* the files /load_template finds, and the addresses /servers/add is called
\* with while a template is loaded
TemplateDir == TemplateFiles \cup {"t2"}
AllAddrs == Addrs \cup {"C"}
Requests == 1..NumRequests
None == "None"
NoReq == 0

VARIABLES
    servers,          \* ComfyUILoadBalancer.servers: the dict, in insertion order
    running,          \* ComfyUILoadBalancer._running
    tools,            \* ComfyUIToolPool.tools: address -> ComfyUITool
    workflow,         \* ComfyUIToolPool.workflow
    current_template, \* ComfyUIToolPool.current_template
    hc_pc,            \* position of check_loop
    hc_addrs,         \* addresses of list(self.servers.keys()) not yet probed in this tick
    hc_resp,          \* response of the GET /queue in flight
    hc_last,          \* what the last applied probe found and did
    loop,             \* the request whose handler body the event loop is running
    req,              \* per request: position, locals and the calls it made
    admin_tasks,      \* /servers/add and /servers/remove handlers running in the thread pool
    admin_calls,      \* number of such calls issued so far
    watch,            \* one call of ComfyUITool._wait_for_prompt_exec and its websocket
    loader,           \* the load_template handlers running in the thread pool
    heap,             \* the node dicts of the workflow graphs, by object identity
    rewrite,          \* one call of a run_workflow_with_... / preload_full_workflow rewrite
    locking           \* the two RLocks (owner, depth) and how far each thread is with them

vars == <<servers, running, tools, workflow, current_template,
          hc_pc, hc_addrs, hc_resp, hc_last, loop, req, admin_tasks, admin_calls,
          watch, loader, heap, rewrite, locking>>

lbVars == <<servers, running>>
poolVars == <<tools, workflow, current_template>>
hcVars == <<hc_pc, hc_addrs, hc_resp, hc_last>>
reqVars == <<loop, req>>
adminVars == <<admin_tasks, admin_calls>>
\* the job driver, the template loader and the rewriter
extVars == <<watch, loader, heap, rewrite>>

\* ------------------------------------------------- ComfyUIServerStatus
ComfyUIServerStatus(addr) ==
    [server_address |-> addr, is_available |-> TRUE, queue_remaining |-> 0,
     queue_pending |-> 0, current_tasks |-> 0, error_count |-> 0]

total_load(status) ==
    status.queue_remaining + status.queue_pending + status.current_tasks

\* dict helpers over the insertion-ordered sequence of status records
Keys(svrs) == [i \in 1..Len(svrs) |-> svrs[i].server_address]
Has(svrs, addr) == \E i \in 1..Len(svrs) : svrs[i].server_address = addr
IndexOf(svrs, addr) == CHOOSE i \in 1..Len(svrs) : svrs[i].server_address = addr
Get(svrs, addr) == svrs[IndexOf(svrs, addr)]
Put(svrs, addr, status) == [svrs EXCEPT ![IndexOf(svrs, addr)] = status]
Del(svrs, addr) == SelectSeq(svrs, LAMBDA s : s.server_address # addr)

\* ------------------------------------------------------ get_best_server
Shuffles(seq) ==
    LET n == Len(seq)
        bij == {f \in [1..n -> 1..n] : \A i, j \in 1..n : f[i] = f[j] => i = j}
    IN  {[i \in 1..n |-> seq[f[i]]] : f \in bij}

RECURSIVE InsertByLoad(_, _)
InsertByLoad(sorted, x) ==
    IF sorted = <<>> THEN <<x>>
    ELSE IF total_load(x[2]) < total_load(Head(sorted)[2])
         THEN <<x>> \o sorted
         ELSE <<Head(sorted)>> \o InsertByLoad(Tail(sorted), x)

RECURSIVE SortByLoad(_)
SortByLoad(seq) ==
    IF seq = <<>> THEN <<>>
    ELSE InsertByLoad(SortByLoad(SubSeq(seq, 1, Len(seq) - 1)), seq[Len(seq)])

available_servers_Unfiltered(svrs) ==
    [i \in 1..Len(svrs) |-> <<svrs[i].server_address, svrs[i]>>]

available_servers(svrs) ==
    LET items == [i \in 1..Len(svrs) |-> <<svrs[i].server_address, svrs[i]>>]
    IN  SelectSeq(items, LAMBDA x : x[2].is_available)

get_best_server_LastFallback(svrs) ==
    IF available_servers(svrs) = <<>>
    THEN {IF svrs # <<>> THEN Keys(svrs)[Len(svrs)] ELSE None}
    ELSE {SortByLoad(p)[1][1] : p \in Shuffles(available_servers(svrs))}

get_best_server_NoFallback(svrs) ==
    IF available_servers(svrs) = <<>>
    THEN {None}
    ELSE {SortByLoad(p)[1][1] : p \in Shuffles(available_servers(svrs))}

\* the set of addresses get_best_server may return (one per outcome of random.shuffle)
get_best_server(svrs) ==
    IF available_servers(svrs) = <<>>
    THEN {IF svrs # <<>> THEN Keys(svrs)[1] ELSE None}
    ELSE {SortByLoad(p)[1][1] : p \in Shuffles(available_servers(svrs))}

\* ------------------------------------------------------- task accounting
increment_task(svrs, addr) ==
    IF Has(svrs, addr)
    THEN Put(svrs, addr, [Get(svrs, addr) EXCEPT !.current_tasks = @ + 1])
    ELSE svrs

Max(a, b) == IF a >= b THEN a ELSE b

decrement_task_Unclamped(svrs, addr) ==
    IF Has(svrs, addr)
    THEN Put(svrs, addr, [Get(svrs, addr) EXCEPT !.current_tasks = @ - 1])
    ELSE svrs

decrement_task_Create(svrs, addr) ==
    IF Has(svrs, addr)
    THEN Put(svrs, addr, [Get(svrs, addr) EXCEPT !.current_tasks = Max(0, @ - 1)])
    ELSE Append(svrs, ComfyUIServerStatus(addr))

decrement_task(svrs, addr) ==
    IF Has(svrs, addr)
    THEN Put(svrs, addr, [Get(svrs, addr) EXCEPT !.current_tasks = Max(0, @ - 1)])
    ELSE svrs

add_server_Reset(svrs, addr) ==
    IF ~Has(svrs, addr) THEN Append(svrs, ComfyUIServerStatus(addr))
    ELSE Put(svrs, addr, ComfyUIServerStatus(addr))

add_server(svrs, addr) ==
    IF ~Has(svrs, addr) THEN Append(svrs, ComfyUIServerStatus(addr)) ELSE svrs

remove_server(svrs, addr) ==
    IF Has(svrs, addr) THEN Del(svrs, addr) ELSE svrs

\* ----------------------------------------------------------------- Init
\* ComfyUITool.__init__; client_id = str(uuid.uuid4()) is a value that no
\* tool of the pool holds
ComfyUITool(client_id, wf) == [client_id |-> client_id, workflow |-> wf, preloaded |-> FALSE]
uuid4(tls) ==
    LET ids == {0} \cup {tls[a].client_id : a \in DOMAIN tls}
    IN  1 + CHOOSE n \in ids : \A m \in ids : m <= n

\* the handler's locals (server_addr, the prompt_id of run_workflow_with_image),
\* its outcome, the calls it made, and three facts about them: the binding it
\* holds was handed for an address that was not registered at that moment
\* (stale), the workflow the pool held at that moment (bound_wf), and the
\* decrement met a counter that was 0
NewRequest ==
    [pc |-> "idle", server |-> None, prompt_id |-> None, result |-> None,
     status |-> 0, calls |-> <<>>, stale |-> FALSE, bound_wf |-> None,
     dec_at_zero |-> FALSE, dec_absent |-> FALSE]

\* a websocket frame: a text frame holding a JSON object with its type and
\* the node and prompt_id of its data, a text frame json.loads or .get fails
\* on, a binary frame, or the end of the connection
NoFrame == [kind |-> "none", type |-> None, node |-> None, prompt_id |-> None]
NoWatch ==
    [pc |-> "idle", prompt_id |-> None, timeout |-> 0, elapsed |-> 0,
     inbox |-> NoFrame, out |-> NoFrame, result |-> None, emitted |-> FALSE]
\* a load_template call: its arguments, the dict iterator of the fan-out
\* (size of tools when it was created, keys yielded so far), the addresses a
\* preload was submitted for (targets), those registered when the fan-out
\* began, the result per address, and the answer
NoLoads ==
    [pc |-> "idle", template |-> None, mode |-> None, size |-> 0, pos |-> 0,
     targets |-> {}, registered |-> {}, results |-> [a \in AllAddrs |-> None],
     result |-> None, status |-> 0, success_count |-> 0]
\* no node dict exists and no rewrite is called: the graph the call is given
\* and its copy (node ids with the identities of their dicts), what was
\* submitted, and how the submission ended
EmptyHeap == <<>>
NoRewrite ==
    [pc |-> "idle", caller |-> None, kind |-> None, workflow |-> <<>>, wf_copy |-> <<>>,
     sent |-> <<>>, outcome |-> None]

NoResponse == [kind |-> None, queue_running |-> 0, queue_pending |-> 0]
NoProbe == "none"

\* self.lock = threading.RLock() of the load balancer and of the tool pool,
\* both free, and no thread has begun
LockNames == {"registry", "pool"}
LockThreads == {"process_image", "check_loop", "add_server", "remove_server", "load_template"}
NoLocking ==
    [lock |-> [l \in LockNames |-> [owner |-> None, count |-> 0]],
     pc   |-> [t \in LockThreads |-> 1]]

\* nothing is being watched, loaded or rewritten
ExtInit ==
    /\ watch = NoWatch
    /\ loader = NoLoads
    /\ heap = EmptyHeap
    /\ rewrite = NoRewrite

\* the load balancer and the tool pool as main.py builds them
PoolInit ==
    /\ servers = [i \in 1..Len(comfyui_servers) |-> ComfyUIServerStatus(comfyui_servers[i])]
    /\ running = TRUE
    /\ tools = [a \in Addrs |->
                   ComfyUITool(CHOOSE i \in 1..Len(comfyui_servers) : comfyui_servers[i] = a, None)]
    /\ workflow = None
    /\ current_template = None
    /\ hc_pc = "while"
    /\ hc_addrs = <<>>
    /\ hc_resp = NoResponse
    /\ hc_last = NoProbe
    /\ locking = NoLocking
    /\ loop = NoReq
    /\ req = [r \in Requests |-> NewRequest]
    /\ admin_tasks = {}
    /\ admin_calls = 0

Init == PoolInit /\ ExtInit

\* ------------------------------------------------- health check thread
\* what GET /queue can come back with: 200 and the two arrays, a non-200
\* status, or an exception (timeout, connection error, unparsable body)
Responses ==
    {[kind |-> "ok", queue_running |-> q[1], queue_pending |-> q[2]] :
        q \in {p \in (0..MaxQueue) \X (0..MaxQueue) : p[1] + p[2] <= MaxQueue}}
    \cup {[kind |-> k, queue_running |-> 0, queue_pending |-> 0] : k \in {"non200", "exc"}}

ApplySuccess_KeepErrors(svrs, addr, resp) ==
    Put(svrs, addr, [Get(svrs, addr) EXCEPT
                        !.queue_remaining = resp.queue_running,
                        !.queue_pending = resp.queue_pending])

\* the body of "with self.lock:" in _update_server_status, on a 200
ApplySuccess(svrs, addr, resp) ==
    Put(svrs, addr, [Get(svrs, addr) EXCEPT
                        !.queue_remaining = resp.queue_running,
                        !.queue_pending = resp.queue_pending,
                        !.is_available = TRUE,
                        !.error_count = 0])

mark_server_error_Strict(svrs, addr) ==
    LET status == Get(svrs, addr)
        count  == status.error_count + 1
    IN  Put(svrs, addr, [status EXCEPT
                            !.error_count = count,
                            !.is_available = IF count > max_error_count THEN FALSE ELSE @])

mark_server_error_Eager(svrs, addr) ==
    LET status == Get(svrs, addr)
    IN  Put(svrs, addr, [status EXCEPT !.error_count = @ + 1, !.is_available = FALSE])

mark_server_error(svrs, addr) ==
    LET status == Get(svrs, addr)
        count  == status.error_count + 1
    IN  Put(svrs, addr, [status EXCEPT
                            !.error_count = count,
                            !.is_available = IF count >= max_error_count THEN FALSE ELSE @])

CheckLoopTest_IgnoreRunning ==
    /\ hc_pc = "while"
    /\ hc_addrs' = Keys(servers)
    /\ hc_pc' = IF servers = <<>> THEN "sleep" ELSE "for"
    /\ hc_last' = NoProbe
    /\ UNCHANGED <<locking, extVars, hc_resp, lbVars, poolVars, reqVars, adminVars>>

\* while self._running: ... list(self.servers.keys())
CheckLoopTest ==
    /\ hc_pc = "while"
    /\ IF running
       THEN /\ hc_addrs' = Keys(servers)
            /\ hc_pc' = IF servers = <<>> THEN "sleep" ELSE "for"
       ELSE /\ hc_pc' = "exited"
            /\ hc_addrs' = hc_addrs
    /\ hc_last' = NoProbe
    /\ UNCHANGED <<locking, extVars, hc_resp, lbVars, poolVars, reqVars, adminVars>>

\* _update_server_status: requests.get(url, timeout=...) for the next address
ProbeSend(resp) ==
    /\ hc_pc = "for"
    /\ LET addr == Head(hc_addrs)
       IN  (resp.kind # "ok" /\ Has(servers, addr))
               => Get(servers, addr).error_count < MaxErrorCount
    /\ hc_resp' = resp
    /\ hc_pc' = "apply"
    /\ hc_last' = NoProbe
    /\ UNCHANGED <<locking, extVars, hc_addrs, lbVars, poolVars, reqVars, adminVars>>

\* what applying a response did to the backend's record
ProbeEffect(before, after, resp) ==
    CASE resp.kind = "ok" /\ ~before.is_available -> "recovered"
      [] resp.kind = "ok" /\ before.is_available -> "refreshed"
      [] resp.kind # "ok" /\ before.is_available /\ ~after.is_available -> "tripped"
      [] OTHER -> "counted"

\* _update_server_status: the response is applied under the lock.  On a
\* removed address self.servers[server_address] raises KeyError; the except
\* clause calls _mark_server_error, which raises KeyError again, outside any
\* try: the exception leaves check_loop and the thread ends.
ProbeApply ==
    /\ hc_pc = "apply"
    /\ LET addr == Head(hc_addrs)
       IN  IF Has(servers, addr)
           THEN /\ servers' = IF hc_resp.kind = "ok"
                              THEN ApplySuccess(servers, addr, hc_resp)
                              ELSE mark_server_error(servers, addr)
                /\ hc_addrs' = Tail(hc_addrs)
                /\ hc_pc' = IF Tail(hc_addrs) = <<>> THEN "sleep" ELSE "for"
                /\ hc_last' = ProbeEffect(Get(servers, addr), Get(servers', addr), hc_resp)
           ELSE /\ servers' = servers
                /\ hc_addrs' = hc_addrs
                /\ hc_pc' = "crashed"
                /\ hc_last' = "lost"
    /\ hc_resp' = NoResponse
    /\ UNCHANGED <<locking, extVars, running, poolVars, reqVars, adminVars>>

\* time.sleep(settings.health_check_interval)
Sleep ==
    /\ hc_pc = "sleep"
    /\ hc_pc' = "while"
    /\ hc_last' = NoProbe
    /\ UNCHANGED <<locking, extVars, hc_addrs, hc_resp, lbVars, poolVars, reqVars, adminVars>>

HealthCheck == CheckLoopTest \/ (\E resp \in Responses : ProbeSend(resp)) \/ ProbeApply \/ Sleep

Shutdown_OffLoop ==
    /\ running
    /\ running' = FALSE
    /\ UNCHANGED <<locking, extVars, servers, poolVars, hcVars, reqVars, adminVars>>

\* shutdown_event -> load_balancer.shutdown(), a coroutine of the event loop
Shutdown ==
    /\ loop = NoReq
    /\ running
    /\ running' = FALSE
    /\ UNCHANGED <<locking, extVars, servers, poolVars, hcVars, reqVars, adminVars>>

\* ------------------------------------------- /servers/add, /servers/remove
\* the event loop hands the call to a thread of the pool
AdminCall(op, addr) ==
    /\ loop = NoReq
    /\ admin_calls < MaxAdminCalls
    /\ LET t == [op |-> op, addr |-> addr, pc |-> "lb", found |-> FALSE]
       IN  /\ t \notin admin_tasks
           /\ admin_tasks' = admin_tasks \cup {t}
    /\ admin_calls' = admin_calls + 1
    /\ UNCHANGED <<locking, extVars, lbVars, poolVars, hcVars, reqVars>>

\* servers.remove_server -> load_balancer.remove_server
RemoveServer(t) ==
    /\ t \in admin_tasks
    /\ t.op = "remove"
    /\ servers' = remove_server(servers, t.addr)
    /\ admin_tasks' = admin_tasks \ {t}
    /\ UNCHANGED <<locking, extVars, running, admin_calls, poolVars, hcVars, reqVars>>

\* servers.add_server -> tool_pool.add_server: self.load_balancer.add_server
AddServerRegistry(t) ==
    /\ t \in admin_tasks
    /\ t.op = "add"
    /\ t.pc = "lb"
    /\ servers' = add_server(servers, t.addr)
    /\ admin_tasks' = (admin_tasks \ {t})
                          \cup {[t EXCEPT !.pc = "pool", !.found = Has(servers, t.addr)]}
    /\ UNCHANGED <<locking, extVars, running, admin_calls, poolVars, hcVars, reqVars>>

AddServerTool_Replace(t) ==
    /\ t \in admin_tasks
    /\ t.op = "add"
    /\ t.pc = "pool"
    /\ tools' = [a \in DOMAIN tools \cup {t.addr} |->
                    IF a = t.addr THEN ComfyUITool(uuid4(tools), workflow) ELSE tools[a]]
    /\ admin_tasks' = admin_tasks \ {t}
    /\ UNCHANGED <<locking, extVars, workflow, current_template, admin_calls, lbVars, hcVars, reqVars>>

\* tool_pool.add_server: the "with self.lock:" block
AddServerTool(t) ==
    /\ t \in admin_tasks
    /\ t.op = "add"
    /\ t.pc = "pool"
    /\ tools' = IF t.addr \in DOMAIN tools
                THEN tools
                ELSE [a \in DOMAIN tools \cup {t.addr} |->
                         IF a = t.addr THEN ComfyUITool(uuid4(tools), workflow)
                         ELSE tools[a]]
    /\ admin_tasks' = admin_tasks \ {t}
    /\ UNCHANGED <<locking, extVars, workflow, current_template, admin_calls, lbVars, hcVars, reqVars>>

Admin ==
    \/ \E op \in {"add", "remove"}, addr \in Addrs : AdminCall(op, addr)
    \/ \E t \in admin_tasks : RemoveServer(t)
    \/ \E t \in admin_tasks : AddServerRegistry(t)
    \/ \E t \in admin_tasks : AddServerTool(t)

\* ------------------------------------ process_image / process_video
\* the HTTP status of the response: JSONResponse, the 404 of a missing
\* template, and the 500 the outer "except Exception" raises
StatusCode(result) ==
    CASE result \in {"success", "no_output"} -> 200
      [] result = "template_not_found" -> 404
      [] OTHER -> 500

Finish_SkipFinally(r, result) ==
    [req[r] EXCEPT !.pc = IF result \in {"success", "no_output"} THEN "dec" ELSE "done",
                   !.result = result]

\* the inner try ends, by return or by exception: control goes to "finally"
Finish(r, result) == [req[r] EXCEPT !.pc = "dec", !.result = result]

load_workflow_NoBroadcast(tls, wf) == tls

\* tool_pool.load_workflow
load_workflow(tls, wf) == [a \in DOMAIN tls |-> [tls[a] EXCEPT !.workflow = wf]]

\* The event loop enters the handler body of the next request (requests are
\* numbered in the order the loop takes them): "if template !=
\* tool_pool.current_template" loads the template file (404 when it does
\* not exist) and calls tool_pool.load_workflow.
ReqStart(r, template) ==
    /\ loop = NoReq
    /\ req[r].pc = "idle"
    /\ \A q \in Requests : q < r => req[q].pc # "idle"
    /\ IF template = current_template
       THEN /\ req' = [req EXCEPT ![r].pc = "select"]
            /\ loop' = r
            /\ UNCHANGED poolVars
       ELSE IF template \notin TemplateFiles
       THEN /\ req' = [req EXCEPT ![r].pc = "done",
                                  ![r].result = "template_not_found",
                                  ![r].status = StatusCode("template_not_found")]
            /\ loop' = NoReq
            /\ UNCHANGED poolVars
       ELSE /\ req' = [req EXCEPT ![r].pc = "select"]
            /\ loop' = r
            /\ workflow' = template
            /\ current_template' = template
            /\ tools' = load_workflow(tools, template)
    /\ UNCHANGED <<locking, extVars, lbVars, hcVars, adminVars>>

\* tool_pool.get_tool_for_request: best_server = self.load_balancer.get_best_server()
\* "if not best_server: raise RuntimeError", which the handler's outer
\* except turns into a 500.
ReqSelect(r) ==
    /\ req[r].pc = "select"
    /\ \E best \in get_best_server(servers) :
          req' = IF best = None
                 THEN [req EXCEPT ![r].pc = "done", ![r].result = "no_server",
                                  ![r].status = StatusCode("no_server")]
                 ELSE [req EXCEPT ![r].pc = "bind", ![r].server = best]
    /\ loop' = IF servers = <<>> THEN NoReq ELSE loop
    /\ UNCHANGED <<locking, extVars, lbVars, poolVars, hcVars, adminVars>>

\* tool_pool.get_tool_for_request: the "with self.lock:" block
ReqBind(r) ==
    /\ req[r].pc = "bind"
    /\ LET addr == req[r].server
           have == IF addr \in DOMAIN tools
                   THEN tools
                   ELSE [a \in DOMAIN tools \cup {addr} |->
                            IF a = addr THEN ComfyUITool(uuid4(tools), None)
                            ELSE tools[a]]
       IN  tools' = IF workflow # None
                    THEN [have EXCEPT ![addr].workflow = workflow]
                    ELSE have
    /\ req' = [req EXCEPT ![r].pc = "inc", ![r].stale = ~Has(servers, req[r].server),
                          ![r].bound_wf = tools'[req[r].server].workflow]
    /\ UNCHANGED <<locking, extVars, workflow, current_template, loop, lbVars, hcVars, adminVars>>

\* load_balancer.increment_task(server_addr)
ReqIncrement(r) ==
    /\ req[r].pc = "inc"
    /\ servers' = increment_task(servers, req[r].server)
    /\ req' = [req EXCEPT ![r].pc = "submit", ![r].calls = Append(@, "inc")]
    /\ UNCHANGED <<locking, extVars, running, loop, poolVars, hcVars, adminVars>>

\* what POST /prompt can come back with: a JSON object that holds or lacks
\* each of the keys prompt_id, id, request_id, or an error of urlopen
PromptIds == {"p1"}
PromptResponses ==
    {[kind |-> "json", prompt_id |-> a, id |-> b, request_id |-> c] :
        a \in PromptIds \cup {None}, b \in PromptIds \cup {None}, c \in PromptIds \cup {None}}
    \cup {[kind |-> "error", prompt_id |-> None, id |-> None, request_id |-> None]}

\* resp.get('prompt_id') or resp.get('id') or resp.get('request_id')
PromptIdOf(resp) ==
    IF resp.prompt_id # None THEN resp.prompt_id
    ELSE IF resp.id # None THEN resp.id
    ELSE resp.request_id

SubmitOutcome_Unchecked(resp) ==
    IF resp.kind = "error" THEN "transport_error" ELSE "prompt_id"

\* _queue_prompt raises, or "if not prompt_id: raise RuntimeError", or the
\* run goes on to _wait_for_prompt_exec
SubmitOutcome(resp) ==
    IF resp.kind = "error" THEN "transport_error"
    ELSE IF PromptIdOf(resp) = None THEN "no_prompt_id"
    ELSE "prompt_id"

\* "if not comfy_tool.workflow: raise", then run_workflow_with_image up to
\* the POST /prompt and the prompt id of its response
ReqSubmit(r, resp) ==
    /\ req[r].pc = "submit"
    /\ IF tools[req[r].server].workflow = None
       THEN req' = [req EXCEPT ![r] = Finish(r, "workflow_not_loaded")]
       ELSE req' = [req EXCEPT ![r] =
                       [(IF SubmitOutcome(resp) = "prompt_id"
                         THEN [req[r] EXCEPT !.pc = "watch"]
                         ELSE Finish(r, SubmitOutcome(resp)))
                        EXCEPT !.calls = Append(@, "prompt"),
                               !.prompt_id = IF resp.kind = "json" THEN PromptIdOf(resp)
                                             ELSE None]]
    /\ UNCHANGED <<locking, extVars, loop, lbVars, poolVars, hcVars, adminVars>>

ReqWatch_HistoryAnyway(r, outcome) ==
    /\ req[r].pc = "watch"
    /\ req' = [req EXCEPT ![r] =
                  [req[r] EXCEPT !.pc = "history",
                                 !.result = IF outcome = "completed" THEN @ ELSE outcome,
                                 !.calls = Append(@, "ws")]]
    /\ UNCHANGED <<locking, extVars, loop, lbVars, poolVars, hcVars, adminVars>>

\* _wait_for_prompt_exec: the websocket connection and its receive loop
ReqWatch(r, outcome) ==
    /\ req[r].pc = "watch"
    /\ req' = [req EXCEPT ![r] =
                  [(IF outcome = "completed"
                    THEN [req[r] EXCEPT !.pc = "history"]
                    ELSE Finish(r, outcome))
                   EXCEPT !.calls = Append(@, "ws")]]
    /\ UNCHANGED <<locking, extVars, loop, lbVars, poolVars, hcVars, adminVars>>

\* _get_history, then the handler's walk over the outputs and its
\* _get_image_bytes call for the first output that has one
ReqHistory(r, outcome) ==
    /\ req[r].pc = "history"
    /\ req' = [req EXCEPT ![r] =
                  [Finish(r, outcome) EXCEPT
                      !.calls = @ \o (IF outcome = "success" THEN <<"history", "view">>
                                      ELSE <<"history">>)]]
    /\ UNCHANGED <<locking, extVars, loop, lbVars, poolVars, hcVars, adminVars>>

\* finally: load_balancer.decrement_task(server_addr); the handler returns
\* its response or the outer except raises the 500
ReqDecrement(r) ==
    /\ req[r].pc = "dec"
    /\ servers' = decrement_task(servers, req[r].server)
    /\ req' = [req EXCEPT ![r].pc = "done", ![r].calls = Append(@, "dec"),
                          ![r].stale = FALSE, ![r].bound_wf = None,
                          ![r].status = StatusCode(req[r].result),
                          ![r].dec_at_zero = /\ Has(servers, req[r].server)
                                             /\ Get(servers, req[r].server).current_tasks = 0,
                          ![r].dec_absent = ~Has(servers, req[r].server)]
    /\ loop' = NoReq
    /\ UNCHANGED <<locking, extVars, running, poolVars, hcVars, adminVars>>

WatchOutcomes == {"completed", "timeout", "transport_error"}
HistoryOutcomes == {"success", "no_output", "transport_error"}

\* the handlers, against backends that answer the POST with one of resps,
\* the watch with one of wouts and the history and view calls with one of houts
RequestWith(resps, wouts, houts) ==
    \/ \E r \in Requests, template \in RequestedTemplates : ReqStart(r, template)
    \/ \E r \in Requests : ReqSelect(r)
    \/ \E r \in Requests : ReqBind(r)
    \/ \E r \in Requests : ReqIncrement(r)
    \/ \E r \in Requests, resp \in resps : ReqSubmit(r, resp)
    \/ \E r \in Requests, outcome \in wouts : ReqWatch(r, outcome)
    \/ \E r \in Requests, outcome \in houts : ReqHistory(r, outcome)
    \/ \E r \in Requests : ReqDecrement(r)

Request == RequestWith(PromptResponses, WatchOutcomes, HistoryOutcomes)

\* ------------------------------------------------------- load_template
\* tools.keys() in insertion order: the configured servers, then the added one
ToolKeys(tls) == SelectSeq(comfyui_servers \o <<"C">>, LAMBDA a : a \in DOMAIN tls)

\* the event loop hands the call to a thread of the pool; the handler looks
\* for the template file (404) and reads it
LoadCall(template, mode) ==
    /\ loop = NoReq
    /\ loader.pc \in {"idle", "done"}
    /\ loader' = IF template \in TemplateDir
                 THEN [NoLoads EXCEPT !.pc = "load", !.template = template, !.mode = mode]
                 ELSE [NoLoads EXCEPT !.pc = "done", !.template = template, !.mode = mode,
                                      !.result = "template_not_found", !.status = 404]
    /\ UNCHANGED <<locking, watch, heap, rewrite, lbVars, poolVars, hcVars, reqVars, adminVars>>

\* tool_pool.load_workflow(workflow, template); a video template is not preloaded
LoadWorkflow_AlwaysPreload ==
    /\ loader.pc = "load"
    /\ workflow' = loader.template
    /\ current_template' = loader.template
    /\ tools' = load_workflow(tools, loader.template)
    /\ loader' = [loader EXCEPT !.pc = "fanout"]
    /\ UNCHANGED <<locking, watch, heap, rewrite, lbVars, hcVars, reqVars, adminVars>>

LoadWorkflow ==
    /\ loader.pc = "load"
    /\ workflow' = loader.template
    /\ current_template' = loader.template
    /\ tools' = load_workflow(tools, loader.template)
    /\ loader' = IF loader.mode = "image"
                 THEN [loader EXCEPT !.pc = "fanout"]
                 ELSE [loader EXCEPT !.pc = "done", !.result = "success", !.status = 200]
    /\ UNCHANGED <<locking, watch, heap, rewrite, lbVars, hcVars, reqVars, adminVars>>

\* preload_all_servers: one turn of "for addr in self.tools.keys()" with its
\* executor.submit.  The iterator raises RuntimeError when the dict has
\* changed size since the iteration began; leaving the "with" block then
\* waits for the futures submitted so far.
PreloadNext ==
    /\ loader.pc = "fanout"
    /\ LET keys  == ToolKeys(tools)
           size0 == IF loader.pos = 0 THEN Len(keys) ELSE loader.size
           reg   == IF loader.pos = 0
                    THEN {servers[i].server_address : i \in 1..Len(servers)}
                    ELSE loader.registered
       IN  loader' =
             IF Len(keys) # size0
             THEN [loader EXCEPT !.pc = "abort"]
             ELSE IF loader.pos = size0
             THEN [loader EXCEPT !.pc = "collect"]
             ELSE [loader EXCEPT !.size = size0, !.registered = reg,
                                 !.pos = @ + 1,
                                 !.targets = @ \cup {keys[loader.pos + 1]}]
    /\ UNCHANGED <<locking, watch, heap, rewrite, lbVars, poolVars, hcVars, reqVars, adminVars>>

\* how preload_full_workflow ends: (True, ...) or (False, ...) for a
\* placeholder that cannot be created, an exception of the POST, a response
\* without prompt id, a watch that returned false or raised
PreloadOutcomes == {"ok", "no_placeholder", "submit_error", "no_prompt_id", "timeout"}

\* preload_on_server(addr) in a worker of the executor: the POST of
\* preload_full_workflow has returned a prompt id, the job is on the backend
PreloadSubmit(addr) ==
    /\ loader.pc \in {"fanout", "collect", "abort"}
    /\ addr \in loader.targets
    /\ loader.results[addr] = None
    /\ loader' = [loader EXCEPT !.results[addr] = "running"]
    /\ UNCHANGED <<locking, watch, heap, rewrite, lbVars, poolVars, hcVars, reqVars, adminVars>>

\* preload_on_server(addr) returns: before a job was submitted, or after the
\* watch of the job
PreloadOnServer(addr, outcome) ==
    /\ loader.pc \in {"fanout", "collect", "abort"}
    /\ addr \in loader.targets
    /\ loader.results[addr] = IF outcome \in {"ok", "timeout"} THEN "running" ELSE None
    /\ loader' = [loader EXCEPT !.results[addr] = outcome]
    /\ tools' = IF outcome = "ok" THEN [tools EXCEPT ![addr].preloaded = TRUE] ELSE tools
    /\ UNCHANGED <<locking, watch, heap, rewrite, workflow, current_template,
                   lbVars, hcVars, reqVars, adminVars>>

\* future.result() for every future, success_count, and the answer; after
\* the RuntimeError of the iterator the handler ends in a 500
LoadFinish ==
    /\ loader.pc \in {"collect", "abort"}
    /\ \A a \in loader.targets : loader.results[a] \notin {None, "running"}
    /\ LET n == Cardinality({a \in loader.targets : loader.results[a] = "ok"})
       IN  loader' =
             IF loader.pc = "abort"
             THEN [loader EXCEPT !.pc = "done", !.result = "runtime_error", !.status = 500]
             ELSE IF n = 0
             THEN [loader EXCEPT !.pc = "done", !.result = "preload_all_failed",
                                 !.status = 500, !.success_count = n]
             ELSE [loader EXCEPT !.pc = "done", !.result = "success",
                                 !.status = 200, !.success_count = n]
    /\ UNCHANGED <<locking, watch, heap, rewrite, lbVars, poolVars, hcVars, reqVars, adminVars>>

\* load_template called with one of templates, in one of modes
LoadWith(templates, modes) ==
    \/ \E template \in templates, mode \in modes : LoadCall(template, mode)
    \/ LoadWorkflow
    \/ PreloadNext
    \/ \E addr \in AllAddrs : PreloadSubmit(addr)
    \/ \E addr \in AllAddrs, outcome \in PreloadOutcomes : PreloadOnServer(addr, outcome)
    \/ LoadFinish

Load == LoadWith(TemplateDir \cup {"missing"}, {"image", "video"})

\* /servers/add and /servers/remove called with one of addrs
AdminWith(addrs) ==
    \/ \E op \in {"add", "remove"}, addr \in addrs : AdminCall(op, addr)
    \/ \E t \in admin_tasks : RemoveServer(t)
    \/ \E t \in admin_tasks : AddServerRegistry(t)
    \/ \E t \in admin_tasks : AddServerTool(t)

\* image-mode load_template of one template, while the first configured
\* server and the new address are added and removed
\* load_template calls of either mode, one after the other
NextModes == LoadWith(TemplateDir, {"image", "video"})
SpecModes == Init /\ [][NextModes]_vars

NextTemplate == LoadWith({"t1", "missing"}, {"image"}) \/ AdminWith({"A", "C"})
SpecTemplate == Init /\ [][NextTemplate]_vars

\* ------------------------------------- ComfyUITool._wait_for_prompt_exec
\* the frames a backend sends: progress, executing and status objects for
\* this job or another one of the same client_id, with data.node a node id,
\* null or missing
Frames ==
    {[kind |-> "text", type |-> t, node |-> n, prompt_id |-> p] :
        t \in {"progress", "executing", "status"},
        n \in {"10", None, "absent"},
        p \in PromptIds \cup {"p2"}}
    \cup {[kind |-> k, type |-> None, node |-> None, prompt_id |-> None] :
            k \in {"malformed", "binary", "closed"}}

\* data.get('node'): None for a null and for a missing key
GetNode(frame) == IF frame.node = "absent" THEN None ELSE frame.node

IsCompletion_AnyPrompt(frame, prompt_id) ==
    /\ frame.kind = "text"
    /\ frame.type = "executing"
    /\ GetNode(frame) = None

\* isinstance(out, str), mtype == 'executing',
\* data.get('node') is None and data.get('prompt_id') == prompt_id
IsCompletion(frame, prompt_id) ==
    /\ frame.kind = "text"
    /\ frame.type = "executing"
    /\ GetNode(frame) = None
    /\ frame.prompt_id = prompt_id

\* run_workflow_with_image calls _wait_for_prompt_exec(prompt_id, timeout)
WatchCall(prompt_id, timeout) ==
    /\ watch.pc \in {"idle", "returned", "raised"}
    /\ watch' = [NoWatch EXCEPT !.pc = "connect", !.prompt_id = prompt_id,
                                !.timeout = timeout]
    /\ UNCHANGED <<locking, loader, heap, rewrite, lbVars, poolVars, hcVars, reqVars, adminVars>>

\* ws = websocket.create_connection(...); deadline = time.time() + timeout.
\* A failed connection raises before the try block.
WatchConnect(ok) ==
    /\ watch.pc = "connect"
    /\ watch' = [watch EXCEPT !.pc = IF ok THEN "test" ELSE "raised",
                               !.result = IF ok THEN None ELSE "raised"]
    /\ UNCHANGED <<locking, loader, heap, rewrite, lbVars, poolVars, hcVars, reqVars, adminVars>>

\* while time.time() < deadline: ... return False
WatchTest ==
    /\ watch.pc = "test"
    /\ watch' = IF watch.elapsed < watch.timeout
                THEN [watch EXCEPT !.pc = "recv"]
                ELSE [watch EXCEPT !.pc = "close", !.result = "false"]
    /\ UNCHANGED <<locking, loader, heap, rewrite, lbVars, poolVars, hcVars, reqVars, adminVars>>

\* out = ws.recv(), which returns when a frame has come, and the body of the
\* loop: an exception of recv, json.loads or .get leaves through finally
WatchRecv ==
    /\ watch.pc = "recv"
    /\ watch.inbox # NoFrame
    /\ LET frame == watch.inbox
       IN  watch' = [watch EXCEPT
                        !.inbox = NoFrame,
                        !.out = frame,
                        !.pc = IF \/ frame.kind \in {"malformed", "closed"}
                                  \/ IsCompletion(frame, watch.prompt_id)
                               THEN "close" ELSE "test",
                        !.result = IF frame.kind \in {"malformed", "closed"} THEN "raised"
                                   ELSE IF IsCompletion(frame, watch.prompt_id) THEN "true"
                                   ELSE None]
    /\ UNCHANGED <<locking, loader, heap, rewrite, lbVars, poolVars, hcVars, reqVars, adminVars>>

\* finally: ws.close(), and the call returns or raises
WatchClose ==
    /\ watch.pc = "close"
    /\ watch' = [watch EXCEPT !.pc = IF watch.result = "raised" THEN "raised" ELSE "returned",
                               !.inbox = NoFrame]
    /\ UNCHANGED <<locking, loader, heap, rewrite, lbVars, poolVars, hcVars, reqVars, adminVars>>

Watch ==
    \/ \E prompt_id \in PromptIds, timeout \in 1..MaxTimeout : WatchCall(prompt_id, timeout)
    \/ \E ok \in BOOLEAN : WatchConnect(ok)
    \/ WatchTest
    \/ WatchRecv
    \/ WatchClose

\* The job was queued by the POST before _wait_for_prompt_exec was called:
\* the backend finishes it and emits its completion signal while the call
\* has not opened its websocket yet, so the frame reaches no socket of this
\* call (emitted: the completion signal of the job has gone out before the
\* deadline, here or while the call was waiting in recv).
BackendEarly ==
    /\ watch.pc = "connect"
    /\ ~watch.emitted
    /\ watch' = [watch EXCEPT !.emitted = TRUE]
    /\ UNCHANGED <<locking, loader, heap, rewrite, lbVars, poolVars, hcVars, reqVars, adminVars>>

\* the backend writes a frame to the open websocket
BackendSend(frame) ==
    /\ watch.pc \in {"test", "recv"}
    /\ watch.inbox = NoFrame
    /\ watch' = [watch EXCEPT
                    !.inbox = frame,
                    !.emitted = \/ @
                                \/ /\ IsCompletion(frame, watch.prompt_id)
                                   /\ watch.pc = "recv"
                                   /\ watch.elapsed < watch.timeout]
    /\ UNCHANGED <<locking, loader, heap, rewrite, lbVars, poolVars, hcVars, reqVars, adminVars>>

\* time.time() moves on while the websocket is open (the clock is followed
\* up to the deadline)
Tick ==
    /\ watch.pc \in {"test", "recv"}
    /\ watch.elapsed < watch.timeout
    /\ watch' = [watch EXCEPT !.elapsed = @ + 1]
    /\ UNCHANGED <<locking, loader, heap, rewrite, lbVars, poolVars, hcVars, reqVars, adminVars>>

NextWatch == Watch \/ BackendEarly \/ (\E frame \in Frames : BackendSend(frame)) \/ Tick
SpecWatch == Init /\ [][NextWatch]_vars

\* the thread of the call runs and time passes; the backend owes no frame
SpecWatchLive == SpecWatch /\ WF_vars(Watch) /\ WF_vars(Tick)

\* ------------------------------------------------------ the two locks
\* What a thread does with the locks, in program order: each "with
\* self.lock:" block is an acquire and a release of the lock of its object,
\* and each call that goes over the network is a step of its own.
Acquire(l) == [op |-> "acquire", lock |-> l]
Release(l) == [op |-> "release", lock |-> l]
Network == [op |-> "network", lock |-> None]
WithLock(l) == <<Acquire(l), Release(l)>>

LockProgram_Nested(t) ==
    CASE t = "process_image" ->
            WithLock("pool")
            \o <<Acquire("pool"), Acquire("registry"), Release("registry"), Release("pool")>>
            \o WithLock("registry") \o <<Network>> \o WithLock("registry")
      [] t = "check_loop" -> <<Network>> \o WithLock("registry")
      [] t = "add_server" ->
            <<Acquire("registry"), Acquire("pool"), Release("pool"), Release("registry")>>
      [] t = "remove_server" -> WithLock("registry")
      [] t = "load_template" -> WithLock("pool") \o <<Network>>

\* process_image / process_video: tool_pool.load_workflow, get_tool_for_request
\* (get_best_server, then the pool's block), increment_task, the workflow
\* run, decrement_task; check_loop: requests.get, then the block that applies
\* the outcome; tool_pool.add_server: load_balancer.add_server, then the
\* pool's block; remove_server; load_template: load_workflow, then
\* preload_all_servers
LockProgram(t) ==
    CASE t = "process_image" ->
            WithLock("pool")
            \o WithLock("registry") \o WithLock("pool")
            \o WithLock("registry") \o <<Network>> \o WithLock("registry")
      [] t = "check_loop" -> <<Network>> \o WithLock("registry")
      [] t = "add_server" -> WithLock("registry") \o WithLock("pool")
      [] t = "remove_server" -> WithLock("registry")
      [] t = "load_template" -> WithLock("pool") \o <<Network>>

\* the step thread t is at, if its program has not ended
Running(t) == locking.pc[t] <= Len(LockProgram(t))
NextOp(t) == LockProgram(t)[locking.pc[t]]

\* RLock.acquire: the lock is free or the thread owns it already
LockAcquire(t) ==
    /\ Running(t)
    /\ NextOp(t).op = "acquire"
    /\ LET l == NextOp(t).lock
       IN  /\ locking.lock[l].owner \in {None, t}
           /\ locking' = [locking EXCEPT !.lock[l] = [owner |-> t, count |-> @.count + 1],
                                          !.pc[t] = @ + 1]
    /\ UNCHANGED <<extVars, lbVars, poolVars, hcVars, reqVars, adminVars>>

\* RLock.release at the end of the with block
LockRelease(t) ==
    /\ Running(t)
    /\ NextOp(t).op = "release"
    /\ LET l == NextOp(t).lock
       IN  locking' = [locking EXCEPT
                          !.lock[l] = IF @.count = 1 THEN [owner |-> None, count |-> 0]
                                      ELSE [@ EXCEPT !.count = @ - 1],
                          !.pc[t] = @ + 1]
    /\ UNCHANGED <<extVars, lbVars, poolVars, hcVars, reqVars, adminVars>>

\* requests.get, urlopen, the websocket: the call returns or raises
NetworkCall(t) ==
    /\ Running(t)
    /\ NextOp(t).op = "network"
    /\ locking' = [locking EXCEPT !.pc[t] = @ + 1]
    /\ UNCHANGED <<extVars, lbVars, poolVars, hcVars, reqVars, adminVars>>

\* the next tick of check_loop, the next call of the handler
ThreadAgain(t) ==
    /\ ~Running(t)
    /\ locking' = [locking EXCEPT !.pc[t] = 1]
    /\ UNCHANGED <<extVars, lbVars, poolVars, hcVars, reqVars, adminVars>>

NextLocks ==
    \/ \E t \in LockThreads : LockAcquire(t)
    \/ \E t \in LockThreads : LockRelease(t)
    \/ \E t \in LockThreads : NetworkCall(t)
    \/ \E t \in LockThreads : ThreadAgain(t)
SpecLocks == Init /\ [][NextLocks]_vars

\* ------------------------------------------------- the workflow rewrites
\* Values of a node's inputs: a string, held as the pieces the rules look
\* at ("old.png" is <<"old", ".png">>), a number, or a list of values.
Str(s) == [kind |-> "str", s |-> s, items |-> <<>>]
Num == [kind |-> "num", s |-> <<>>, items |-> <<>>]
List(items) == [kind |-> "list", s |-> <<>>, items |-> items]

\* v.endswith(suffix), piece in v
EndsWith(s, suffix) == Len(s) > 0 /\ s[Len(s)] = suffix
Contains(s, piece) == \E i \in 1..Len(s) : s[i] = piece

\* isinstance(v, str) and (v.endswith('.png') or v.endswith('.jpg') or
\* 'pasted/' in v or 'input' in v)
MatchesStr(v) ==
    /\ v.kind = "str"
    /\ \/ EndsWith(v.s, ".png") \/ EndsWith(v.s, ".jpg")
       \/ Contains(v.s, "pasted/") \/ Contains(v.s, "input")

\* isinstance(item, str) and (item.endswith('.png') or item.endswith('.jpg')
\* or 'pasted/' in item)
MatchesItem(v) ==
    /\ v.kind = "str"
    /\ \/ EndsWith(v.s, ".png") \/ EndsWith(v.s, ".jpg") \/ Contains(v.s, "pasted/")

\* the new value of one inputs entry
RewriteValue(v, filename) ==
    IF MatchesStr(v) THEN Str(filename)
    ELSE IF v.kind = "list"
    THEN List([i \in 1..Len(v.items) |->
                  IF MatchesItem(v.items[i]) THEN Str(filename) ELSE v.items[i]])
    ELSE v

\* an inputs dict, in insertion order: key in inputs, inputs[key] = value
DictHas(d, key) == \E i \in 1..Len(d) : d[i].key = key
DictSet(d, key, value) ==
    IF DictHas(d, key)
    THEN [i \in 1..Len(d) |-> IF d[i].key = key THEN [key |-> key, value |-> value] ELSE d[i]]
    ELSE Append(d, [key |-> key, value |-> value])

\* A node dict: class_type and inputs (has_inputs: the key exists).
\* The rewrite of a LoadImage node in run_workflow_with_image (node "10") and
\* in preload_full_workflow: inputs = node.setdefault('inputs', {}), the loop
\* over list(inputs.items()), and "if 'image' not in inputs".
RewriteImageNode(node, filename) ==
    LET replaced == [i \in 1..Len(node.inputs) |->
                        [key |-> node.inputs[i].key,
                         value |-> RewriteValue(node.inputs[i].value, filename)]]
    IN  [node EXCEPT !.has_inputs = TRUE,
                     !.inputs = IF DictHas(replaced, "image") THEN replaced
                                ELSE Append(replaced, [key |-> "image", value |-> Str(filename)])]

SetImageNode_Append(node, filename) ==
    [node EXCEPT !.has_inputs = TRUE,
                 !.inputs = Append(@, [key |-> "image", value |-> Str(filename)])]

\* the first LoadImage node found when node "10" was not rewritten
SetImageNode(node, filename) ==
    [node EXCEPT !.has_inputs = TRUE, !.inputs = DictSet(@, "image", Str(filename))]

RewriteVideoNode_AlwaysVideo(node, filename) ==
    [node EXCEPT !.has_inputs = TRUE, !.inputs = DictSet(@, "video", Str(filename))]

\* run_workflow_with_video on the node of the target id
RewriteVideoNode(node, filename) ==
    [node EXCEPT !.has_inputs = TRUE,
                 !.inputs = IF DictHas(@, "video") THEN DictSet(@, "video", Str(filename))
                            ELSE IF DictHas(@, "video_path")
                            THEN DictSet(@, "video_path", Str(filename))
                            ELSE DictSet(@, "video", Str(filename))]

VideoLoaders == {"LoadVideo", "VHS_LoadVideo", "LoadVideoPath"}

\* A graph is its node ids, in insertion order, each with the identity (the
\* index in heap) of its node dict.
HasId(graph, id) == \E i \in 1..Len(graph) : graph[i].id = id
RefOf(graph, id) == graph[CHOOSE i \in 1..Len(graph) : graph[i].id = id].ref
GraphOf(graph, hp) == [i \in 1..Len(graph) |-> [id |-> graph[i].id, node |-> hp[graph[i].ref]]]

deepcopy_Shallow(graph, hp) == [graph |-> graph, heap |-> hp]

\* copy.deepcopy(workflow): a new dict for every node
deepcopy(graph, hp) ==
    [graph |-> [i \in 1..Len(graph) |-> [id |-> graph[i].id, ref |-> Len(hp) + i]],
     heap  |-> hp \o [i \in 1..Len(graph) |-> hp[graph[i].ref]]]

run_workflow_with_image_NoPreference(graph, hp, filename) ==
    IF \E i \in 1..Len(graph) : hp[graph[i].ref].class_type = "LoadImage"
    THEN LET first == CHOOSE i \in 1..Len(graph) :
                         /\ hp[graph[i].ref].class_type = "LoadImage"
                         /\ \A j \in 1..(i - 1) : hp[graph[j].ref].class_type # "LoadImage"
         IN  [hp EXCEPT ![graph[first].ref] = RewriteImageNode(@, filename)]
    ELSE hp

run_workflow_with_image_LastLoadImage(graph, hp, filename) ==
    IF HasId(graph, "10") /\ hp[RefOf(graph, "10")].class_type = "LoadImage"
    THEN [hp EXCEPT ![RefOf(graph, "10")] = RewriteImageNode(@, filename)]
    ELSE IF \E i \in 1..Len(graph) : hp[graph[i].ref].class_type = "LoadImage"
    THEN LET last == CHOOSE i \in 1..Len(graph) :
                        /\ hp[graph[i].ref].class_type = "LoadImage"
                        /\ \A j \in (i + 1)..Len(graph) : hp[graph[j].ref].class_type # "LoadImage"
         IN  [hp EXCEPT ![graph[last].ref] = SetImageNode(@, filename)]
    ELSE hp

\* the heap after run_workflow_with_image has rewritten wf_copy
run_workflow_with_image(graph, hp, filename) ==
    IF HasId(graph, "10") /\ hp[RefOf(graph, "10")].class_type = "LoadImage"
    THEN [hp EXCEPT ![RefOf(graph, "10")] = RewriteImageNode(@, filename)]
    ELSE IF \E i \in 1..Len(graph) : hp[graph[i].ref].class_type = "LoadImage"
    THEN LET first == CHOOSE i \in 1..Len(graph) :
                         /\ hp[graph[i].ref].class_type = "LoadImage"
                         /\ \A j \in 1..(i - 1) : hp[graph[j].ref].class_type # "LoadImage"
         IN  [hp EXCEPT ![graph[first].ref] = SetImageNode(@, filename)]
    ELSE hp

run_workflow_with_video_AnyClass(graph, hp, filename, target_node_id) ==
    IF HasId(graph, target_node_id)
    THEN [hp EXCEPT ![RefOf(graph, target_node_id)] = RewriteVideoNode(@, filename)]
    ELSE hp

\* the heap after run_workflow_with_video has rewritten wf_copy
run_workflow_with_video(graph, hp, filename, target_node_id) ==
    IF HasId(graph, target_node_id)
       /\ hp[RefOf(graph, target_node_id)].class_type \in VideoLoaders
    THEN [hp EXCEPT ![RefOf(graph, target_node_id)] = RewriteVideoNode(@, filename)]
    ELSE hp

preload_full_workflow_FirstOnly(graph, hp, filename) ==
    IF \E i \in 1..Len(graph) : hp[graph[i].ref].class_type = "LoadImage"
    THEN LET first == CHOOSE i \in 1..Len(graph) :
                         /\ hp[graph[i].ref].class_type = "LoadImage"
                         /\ \A j \in 1..(i - 1) : hp[graph[j].ref].class_type # "LoadImage"
         IN  [hp EXCEPT ![graph[first].ref] = RewriteImageNode(@, filename)]
    ELSE hp

\* the heap after preload_full_workflow has rewritten wf_copy
preload_full_workflow(graph, hp, filename) ==
    [r \in 1..Len(hp) |->
        IF (\E i \in 1..Len(graph) : graph[i].ref = r) /\ hp[r].class_type = "LoadImage"
        THEN RewriteImageNode(hp[r], filename)
        ELSE hp[r]]

\* the uploaded file's name, the video's, and settings.preload_placeholder_name
FilenameOf(kind) ==
    CASE kind = "image" -> <<"upload", ".png">>
      [] kind = "video" -> <<"upload", ".mp4">>
      [] kind = "preload" -> <<"preload_white", ".png">>

EntryPoint_ByMode(caller) ==
    CASE caller = "process_image" -> "image"
      [] caller = "process_video" -> "video"
      [] caller = "preload_all_servers" -> "preload"

\* the rewrite each caller runs: process_image and process_video both call
\* comfy_tool.run_workflow_with_image(comfy_tool.workflow, unique_filename, ...),
\* preload_all_servers calls tool.preload_full_workflow(workflow, timeout)
EntryPoint(caller) ==
    CASE caller = "process_image" -> "image"
      [] caller = "process_video" -> "image"
      [] caller = "preload_all_servers" -> "preload"

\* a rewrite is called with the shared workflow; wf_copy = copy.deepcopy(workflow)
RewriteCall(caller, kind) ==
    /\ rewrite.pc \in {"idle", "done"}
    /\ LET c == deepcopy(rewrite.workflow, SubSeq(heap, 1, Len(rewrite.workflow)))
       IN  /\ heap' = c.heap
           /\ rewrite' = [rewrite EXCEPT !.pc = "copied", !.caller = caller, !.kind = kind,
                                          !.wf_copy = c.graph,
                                          !.sent = <<>>, !.outcome = None]
    /\ UNCHANGED <<locking, watch, loader, lbVars, poolVars, hcVars, reqVars, adminVars>>

\* the nodes of wf_copy are rewritten in place
RewriteApply ==
    /\ rewrite.pc = "copied"
    /\ heap' = CASE rewrite.kind = "image" ->
                      run_workflow_with_image(rewrite.wf_copy, heap, FilenameOf("image"))
                 [] rewrite.kind = "video" ->
                      run_workflow_with_video(rewrite.wf_copy, heap, FilenameOf("video"), "2")
                 [] rewrite.kind = "preload" ->
                      preload_full_workflow(rewrite.wf_copy, heap, FilenameOf("preload"))
    /\ rewrite' = [rewrite EXCEPT !.pc = "rewritten"]
    /\ UNCHANGED <<locking, watch, loader, lbVars, poolVars, hcVars, reqVars, adminVars>>

\* resp = self._queue_prompt(wf_copy): the POST succeeds or raises
RewriteSubmit(outcome) ==
    /\ rewrite.pc = "rewritten"
    /\ rewrite' = [rewrite EXCEPT !.pc = "done", !.sent = GraphOf(rewrite.wf_copy, heap),
                                  !.outcome = outcome]
    /\ UNCHANGED <<locking, heap, watch, loader, lbVars, poolVars, hcVars, reqVars, adminVars>>

Rewrite ==
    \/ \E caller \in {"process_image", "process_video", "preload_all_servers"} :
          RewriteCall(caller, EntryPoint(caller))
    \/ RewriteCall(None, "video")
    \/ RewriteApply
    \/ \E outcome \in {"ok", "error"} : RewriteSubmit(outcome)

\* the graphs the rewrites are run on: up to MaxNodes nodes with distinct
\* ids, each a loader or another node, without inputs or with one of a few
\* inputs dicts
NodeIds == {"10", "5", "2"}
InputDicts ==
    {<<[key |-> "image", value |-> Str(<<"old", ".png">>)]>>,
     <<[key |-> "upload", value |-> Str(<<"input", "x">>)],
       [key |-> "mask",
        value |-> List(<<Str(<<"pasted/", "m">>), Num, Str(<<"input", "y">>)>>)]>>,
     <<[key |-> "video", value |-> Str(<<"clip">>)], [key |-> "seed", value |-> Num]>>,
     <<[key |-> "video_path", value |-> Str(<<"old", ".jpg">>)]>>}
NodeDicts ==
    {[class_type |-> c, has_inputs |-> TRUE, inputs |-> d] :
        c \in {"LoadImage", "VHS_LoadVideo", "KSampler"}, d \in InputDicts}
    \cup {[class_type |-> c, has_inputs |-> FALSE, inputs |-> <<>>] :
            c \in {"LoadImage", "VHS_LoadVideo", "KSampler"}}

InitRewrite ==
    /\ PoolInit
    /\ watch = NoWatch
    /\ loader = NoLoads
    /\ \E n \in 1..MaxNodes :
          \E ids \in [1..n -> NodeIds], nodes \in [1..n -> NodeDicts] :
             /\ \A i, j \in 1..n : ids[i] = ids[j] => i = j
             /\ heap = nodes
             /\ rewrite = [NoRewrite EXCEPT
                              !.workflow = [i \in 1..n |-> [id |-> ids[i], ref |-> i]]]

NextRewrite == Rewrite
SpecRewrite == InitRewrite /\ [][NextRewrite]_vars

Next == HealthCheck \/ Shutdown \/ Admin \/ Request \/ Load \/ NextWatch \/ Rewrite

Spec == Init /\ [][Next]_vars

\* the request path, and /servers/add and /servers/remove called for the
\* first configured server
NextDispatch == Request \/ AdminWith({"A"})
SpecDispatch == Init /\ [][NextDispatch]_vars

\* the request path and the server management calls up to the shutdown
\* event, which the server raises once it has stopped taking requests.  A
\* job that was submitted runs to its end here; the POST itself may fail.
RequestToEnd == RequestWith(PromptResponses, {"completed"}, {"success"})
NextShutdown == (running /\ (RequestToEnd \/ Admin)) \/ Shutdown
SpecShutdown == Init /\ [][NextShutdown]_vars

\* requests for the first template while load_template loads the second
NextReload == RequestToEnd \/ LoadWith({"t2"}, {"image", "video"})
SpecReload == Init /\ [][NextReload]_vars

\* the health check thread, shutdown, and /servers/add and /servers/remove
\* called for the first configured server
NextProbe == HealthCheck \/ Shutdown \/ AdminWith({"A"})
SpecProbe == Init /\ [][NextProbe]_vars

\* the health check thread under a fair scheduler: every requests.get has a
\* timeout and time.sleep returns.  The backends report empty queues; the
\* lengths they report play no part in how the loop ends.
IdleResponses == {resp \in Responses : resp.queue_running = 0 /\ resp.queue_pending = 0}
HealthCheckIdle ==
    CheckLoopTest \/ (\E resp \in IdleResponses : ProbeSend(resp)) \/ ProbeApply \/ Sleep
NextProbeLive == HealthCheckIdle \/ Shutdown \/ Admin
SpecProbeLive == Init /\ [][NextProbeLive]_vars /\ WF_vars(HealthCheckIdle)

\* get_best_server over the registry snapshots the probes can leave behind:
\* a backend is unavailable once max_error_count probes in a row have failed
\* and keeps the queue lengths of its last successful probe
StatusSnapshots(addr) ==
    {[server_address |-> addr, is_available |-> av, queue_remaining |-> q[1],
      queue_pending |-> q[2], current_tasks |-> 0,
      error_count |-> IF av THEN 0 ELSE max_error_count] :
        av \in BOOLEAN,
        q \in {p \in (0..MaxQueue) \X (0..MaxQueue) : p[1] + p[2] <= MaxQueue}}

RegistrySnapshots ==
    {<<>>}
    \cup UNION {{<<s>> : s \in StatusSnapshots(a)} : a \in Addrs}
    \cup UNION {{<<s, t>> : s \in StatusSnapshots(ab[1]), t \in StatusSnapshots(ab[2])} :
                   ab \in {p \in Addrs \X Addrs : p[1] # p[2]}}

InitSelect ==
    /\ servers \in RegistrySnapshots
    /\ running = TRUE
    /\ tools = [a \in Addrs |->
                   ComfyUITool(CHOOSE i \in 1..Len(comfyui_servers) : comfyui_servers[i] = a, None)]
    /\ workflow = None
    /\ current_template = None
    /\ hc_pc = "while"
    /\ hc_addrs = <<>>
    /\ hc_resp = NoResponse
    /\ hc_last = NoProbe
    /\ locking = NoLocking
    /\ loop = NoReq
    /\ req = [r \in Requests |-> NewRequest]
    /\ admin_tasks = {}
    /\ admin_calls = 0
    /\ ExtInit

NextSelect == Request
SpecSelect == InitSelect /\ [][NextSelect]_vars

\* /servers/add for a configured and for a new address, over the snapshots
\* with at most one server registered, while requests whose jobs run to
\* their end are served
NextAdd ==
    \/ RequestWith({resp \in PromptResponses :
                       resp.prompt_id # None /\ resp.id = None /\ resp.request_id = None},
                   {"completed"}, {"success"})
    \/ \E addr \in {"A", "C"} : AdminCall("add", addr)
    \/ \E t \in admin_tasks : AddServerRegistry(t)
    \/ \E t \in admin_tasks : AddServerTool(t)
InitAdd == InitSelect /\ Len(servers) <= 1
SpecAdd == InitAdd /\ [][NextAdd]_vars

\* the three writers of the tools and their workflows: requests (the
\* handler's load_workflow and get_tool_for_request), /servers/add for a new
\* address, and video-mode load_template calls for the second template
NextSync ==
    \/ RequestWith({resp \in PromptResponses :
                       resp.prompt_id # None /\ resp.id = None /\ resp.request_id = None},
                   {"completed"}, {"success"})
    \/ AdminCall("add", "C")
    \/ \E t \in admin_tasks : AddServerRegistry(t)
    \/ \E t \in admin_tasks : AddServerTool(t)
    \/ LoadCall("t2", "video")
    \/ LoadWorkflow
SpecSync == Init /\ [][NextSync]_vars

\* ======================================================================
\* Properties
\* ======================================================================
InFlightPcs == {"submit", "watch", "history", "dec"}

\* C1: every request that was handed a backend calls increment_task on it
\* exactly once, before its first network call to the backend, and
\* decrement_task on it exactly once, after its last one, whatever way the
\* request ends; a request that was handed no backend makes no call at all.
C1_Bracketed ==
    \A r \in Requests :
        LET c == req[r].calls
            n == Len(c)
        IN  /\ req[r].server = None => c = <<>>
            /\ \A i \in 1..n : c[i] = "inc" <=> i = 1
            /\ \A i \in 1..n : c[i] = "dec" => (i = n /\ req[r].pc = "done")
            /\ (req[r].pc = "done" /\ req[r].server # None) => (n >= 2 /\ c[n] = "dec")
            /\ req[r].pc \in InFlightPcs => (n >= 1 /\ c[1] = "inc")

\* two requests have finished, one by a watch timeout after two network
\* calls and one by a transport error, each with its increment and decrement
C1_Witness ==
    \E r1, r2 \in Requests :
        /\ req[r1].pc = "done" /\ req[r1].result = "timeout"
        /\ req[r1].calls = <<"inc", "prompt", "ws", "dec">>
        /\ req[r2].pc = "done" /\ req[r2].result = "transport_error"
        /\ req[r2].calls = <<"inc", "prompt", "dec">>

\* C2: for every registered backend, current_tasks is the number of requests
\* that have called increment_task on it and not yet decrement_task, also
\* when the backend is removed and added again while a request runs on it.
C2_Claim ==
    \A i \in 1..Len(servers) :
        servers[i].current_tasks =
            Cardinality({r \in Requests : /\ req[r].server = servers[i].server_address
                                          /\ req[r].pc \in InFlightPcs})

\* C3: current_tasks is never negative, and decrement_task on a registered
\* backend whose counter is 0 changes nothing in the registry.
C3_Clamped ==
    /\ [](\A i \in 1..Len(servers) : servers[i].current_tasks >= 0)
    /\ [][\A r \in Requests :
            (/\ req[r].pc = "dec" /\ req'[r].pc = "done"
             /\ \E i \in 1..Len(servers) : /\ servers[i].server_address = req[r].server
                                           /\ servers[i].current_tasks = 0)
            => servers' = servers]_vars

\* a request has decremented a registered backend whose counter was already 0
C3_Witness ==
    \E r \in Requests :
        /\ req[r].pc = "done"
        /\ req[r].dec_at_zero
        /\ \E i \in 1..Len(servers) : /\ servers[i].server_address = req[r].server
                                      /\ servers[i].current_tasks = 0

\* C4: with backends A and B registered, available and idle, and no server
\* management call, two requests issued together go one to each backend.
C4_Claim ==
    (/\ admin_calls = 0
     /\ req[1].server # None
     /\ req[2].server # None)
    => req[1].server # req[2].server

\* C5: whenever some registered backend is available, every address
\* get_best_server can return is a registered, available backend whose
\* queue_remaining + queue_pending + current_tasks no available backend
\* undercuts.
C5_LeastLoaded ==
    (\E i \in 1..Len(servers) : servers[i].is_available)
    => \A b \in get_best_server(servers) :
          \E i \in 1..Len(servers) :
             /\ servers[i].server_address = b
             /\ servers[i].is_available
             /\ \A j \in 1..Len(servers) :
                   servers[j].is_available =>
                      servers[i].queue_remaining + servers[i].queue_pending
                         + servers[i].current_tasks
                      <= servers[j].queue_remaining + servers[j].queue_pending
                         + servers[j].current_tasks

\* a request has just been handed the available backend although the other
\* registered backend, which is unavailable, carries less load
C5_Witness ==
    \E r \in Requests, i, j \in 1..Len(servers) :
        /\ req[r].pc = "bind"
        /\ servers[i].server_address = req[r].server
        /\ servers[i].is_available
        /\ ~servers[j].is_available
        /\ servers[j].queue_remaining + servers[j].queue_pending + servers[j].current_tasks
           < servers[i].queue_remaining + servers[i].queue_pending + servers[i].current_tasks

NoneAvailable == \A i \in 1..Len(servers) : ~servers[i].is_available

\* C6: when no registered backend is available get_best_server returns the
\* first registered address whatever the loads, and None only for an empty
\* registry; the request goes on with that backend, and one that then ends in
\* a transport error is answered with a 500.
C6_Fallback ==
    /\ []((NoneAvailable /\ servers # <<>>)
            => get_best_server(servers) = {servers[1].server_address})
    /\ [](None \in get_best_server(servers) <=> servers = <<>>)
    /\ [][\A r \in Requests :
            (req[r].pc = "select" /\ req'[r].pc # "select" /\ NoneAvailable /\ servers # <<>>)
            => (req'[r].pc = "bind" /\ req'[r].server = servers[1].server_address)]_vars
    /\ [](\A r \in Requests :
            (req[r].pc = "done" /\ req[r].result = "transport_error") => req[r].status = 500)

\* both backends are unavailable, the first registered one carries more load
\* than the second, and a request that was sent to the first has ended in a
\* transport error answered with a 500
C6_Witness ==
    \E r \in Requests :
        /\ Len(servers) = 2
        /\ NoneAvailable
        /\ servers[1].queue_remaining + servers[1].queue_pending
           > servers[2].queue_remaining + servers[2].queue_pending
        /\ req[r].pc = "done"
        /\ req[r].server = servers[1].server_address
        /\ req[r].result = "transport_error"
        /\ req[r].status = 500

\* C7: a registered backend whose error_count has reached max_error_count is
\* unavailable.
C7_ThresholdUnavailable ==
    \A i \in 1..Len(servers) :
        servers[i].error_count >= max_error_count => ~servers[i].is_available

\* the probe that was just applied failed, and it was the failure that took
\* an available backend to max_error_count
C7_Witness ==
    /\ hc_last = "tripped"
    /\ \E i \in 1..Len(servers) :
          /\ servers[i].error_count = max_error_count
          /\ ~servers[i].is_available

\* C8: when the 200 response of a probe is applied to a registered backend,
\* the backend is available with error_count 0 afterwards, whatever it was
\* before; and every tick probes every registered backend, the unavailable
\* ones included.
C8_SuccessRestores ==
    /\ [][(/\ hc_pc = "apply" /\ hc_pc' # "apply"
           /\ hc_resp.kind = "ok"
           /\ \E i \in 1..Len(servers) : servers[i].server_address = Head(hc_addrs))
          => \E i \in 1..Len(servers') :
                /\ servers'[i].server_address = Head(hc_addrs)
                /\ servers'[i].is_available
                /\ servers'[i].error_count = 0
                /\ servers'[i].queue_remaining = hc_resp.queue_running
                /\ servers'[i].queue_pending = hc_resp.queue_pending]_vars
    /\ [][(hc_pc = "while" /\ hc_pc' \in {"for", "sleep"})
          => \A i \in 1..Len(servers) :
                \E k \in 1..Len(hc_addrs') : hc_addrs'[k] = servers[i].server_address]_vars

\* the probe that was just applied succeeded on a backend that was
\* unavailable, and the backend is available again
C8_Witness ==
    /\ hc_last = "recovered"
    /\ Len(servers) = 1
    /\ servers[1].is_available
    /\ servers[1].error_count = 0

\* C9: when the backend a probe was sent to has been removed before the
\* outcome is applied, the outcome is dropped: the registry does not change
\* and no exception leaves the probe step.
C9_Claim ==
    [][(/\ hc_pc = "apply" /\ hc_pc' # "apply"
        /\ \A i \in 1..Len(servers) : servers[i].server_address # Head(hc_addrs))
       => (servers' = servers /\ hc_pc' # "crashed")]_vars

C11_ShutdownDrained ==
    /\ [][(running /\ ~running')
          => /\ \A r \in Requests :
                   (\E i \in 1..Len(req[r].calls) : req[r].calls[i] = "inc")
                   => (req[r].pc = "done" /\ req[r].calls[Len(req[r].calls)] = "dec")
             /\ \A i \in 1..Len(servers') : servers'[i].current_tasks = 0]_vars
    /\ [](~running => \A i \in 1..Len(servers) : servers[i].current_tasks = 0)

\* shutdown has been signalled after a request ran a job on a backend that
\* is still registered
C11_Witness ==
    /\ ~running
    /\ \E r \in Requests :
          /\ req[r].pc = "done"
          /\ req[r].result = "success"
          /\ \E i \in 1..Len(servers) : servers[i].server_address = req[r].server

\* C14: a response to the POST /prompt that carries none of the keys
\* prompt_id, id, request_id makes the run fail: the request opens no
\* websocket and fetches no history, it is answered with a 500, and it calls
\* decrement_task for its increment_task.
C14_NoPromptId ==
    /\ \A resp \in PromptResponses :
          (resp.kind = "json" /\ resp.prompt_id = None /\ resp.id = None
              /\ resp.request_id = None)
          => PromptIdOf(resp) = None
    /\ \A r \in Requests :
          LET c == req[r].calls
          IN  ((\E i \in 1..Len(c) : c[i] = "prompt") /\ req[r].prompt_id = None)
              => /\ req[r].result \in {"no_prompt_id", "transport_error"}
                 /\ \A i \in 1..Len(c) : c[i] \notin {"ws", "history", "view"}
                 /\ req[r].pc \in {"dec", "done"}
                 /\ req[r].pc = "done"
                       => (c = <<"inc", "prompt", "dec">> /\ req[r].status = 500)
    /\ \A r \in Requests : req[r].result = "no_prompt_id" => req[r].prompt_id = None

\* a request whose POST was answered without a prompt id has ended: one
\* network call between its increment and its decrement, and a 500
C14_Witness ==
    \E r \in Requests :
        /\ req[r].pc = "done"
        /\ req[r].result = "no_prompt_id"
        /\ req[r].calls = <<"inc", "prompt", "dec">>
        /\ req[r].status = 500

\* C15: get_tool_for_request raises its "No available ComfyUI servers" error
\* exactly when the registry is empty at the moment of get_best_server; the
\* request then ends with no binding, no change to any tool or counter, and
\* no call to a backend.
C15_NoBackend ==
    /\ [][\A r \in Requests :
            (req[r].pc = "select" /\ req'[r].pc # "select")
            => /\ (req'[r].result = "no_server") <=> (servers = <<>>)
               /\ req'[r].result = "no_server"
                     => /\ req'[r].pc = "done"
                        /\ req'[r].status = 500
                        /\ tools' = tools
                        /\ servers' = servers]_vars
    /\ [](\A r \in Requests :
            req[r].result = "no_server"
            => (req[r].pc = "done" /\ req[r].server = None /\ req[r].calls = <<>>))

\* a request has met an empty registry and ended without a backend; every
\* tool still is as the pool created it
C15_Witness ==
    \E r \in Requests :
        /\ servers = <<>>
        /\ req[r].pc = "done"
        /\ req[r].result = "no_server"
        /\ req[r].calls = <<>>
        /\ \A a \in DOMAIN tools : tools[a].workflow = workflow /\ ~tools[a].preloaded

\* C16: while an address is not registered, a request that was handed the
\* binding of that address when it was already removed neither calls
\* increment_task for it nor sends it a POST /prompt.
C16_Claim ==
    [][\A r \in Requests :
         (/\ \/ (req[r].pc = "inc" /\ req'[r].pc = "submit")
              \/ (req[r].pc = "submit" /\ Len(req'[r].calls) > Len(req[r].calls))
          /\ \A i \in 1..Len(servers) : servers[i].server_address # req[r].server)
         => ~req[r].stale]_vars

\* C12: a call of _wait_for_prompt_exec that has opened its websocket ends:
\* it returns (false when no completion frame came before the deadline) or
\* raises, also when the backend sends no frame at all.
C12_Claim ==
    (watch.pc \in {"test", "recv"}) ~> (watch.pc \in {"returned", "raised"})

\* C13: _wait_for_prompt_exec(prompt_id) returns true only when the frame it
\* has just received is a text frame of type executing whose data.node is
\* null and whose data.prompt_id is its own prompt_id; after a progress
\* frame, an executing frame with a node, or a completion frame of another
\* prompt_id it tests the deadline again.
C13_CompletionOnly ==
    /\ [](watch.result = "true"
            => /\ watch.out.kind = "text"
               /\ watch.out.type = "executing"
               /\ watch.out.node \in {None, "absent"}
               /\ watch.out.prompt_id = watch.prompt_id)
    /\ [][(/\ watch.pc = "recv" /\ watch'.pc # "recv"
           /\ watch.inbox.kind = "text"
           /\ \/ watch.inbox.type # "executing"
              \/ watch.inbox.node = "10"
              \/ watch.inbox.prompt_id # watch.prompt_id)
          => (watch'.pc = "test" /\ watch'.result = None)]_vars

\* the call has returned true on the completion frame of its job
C13_Witness ==
    /\ watch.pc = "returned"
    /\ watch.result = "true"
    /\ watch.out = [kind |-> "text", type |-> "executing", node |-> None, prompt_id |-> "p1"]
    /\ watch.elapsed > 0

\* C17: the backends preload_all_servers sends its preload job to are the
\* backends registered when it is called: no job reaches an address that was
\* not registered then, and when load_template has answered every backend
\* that was registered then has a result.
C17_Claim ==
    /\ \A a \in AllAddrs :
          loader.results[a] \in {"ok", "no_prompt_id", "timeout"} => a \in loader.registered
    /\ (loader.pc = "done" /\ loader.result \in {"success", "preload_all_failed"})
          => \A a \in loader.registered : loader.results[a] # None

\* C18: an image-mode load_template of an existing template ends in the
\* preload-failed-on-all-servers error exactly when no preload succeeded;
\* when at least one succeeded it answers success, with a result for every
\* backend it targeted and a success count equal to the number of preloads
\* that succeeded.
C18_Claim ==
    (loader.pc = "done" /\ loader.mode = "image" /\ loader.template \in TemplateDir)
    => LET n == Cardinality({a \in AllAddrs : loader.results[a] = "ok"})
       IN  /\ (loader.result = "preload_all_failed") <=> (n = 0)
           /\ n > 0 => /\ loader.result = "success"
                        /\ loader.status = 200
                        /\ \A a \in loader.targets : loader.results[a] # None
                        /\ loader.success_count = n

\* C19: the workflow a request passes to run_workflow_with_image, and so the
\* graph it submits, is the workflow the pool held when get_tool_for_request
\* handed it the tool, whatever load_workflow calls run in between.
C19_Claim ==
    [][\A r \in Requests :
         (req[r].pc = "submit" /\ Len(req'[r].calls) > Len(req[r].calls))
         => tools[req[r].server].workflow = req[r].bound_wf]_vars

\* C20: no rewrite changes the workflow graph it is given: the graph reads
\* the same before and after every step of run_workflow_with_image,
\* run_workflow_with_video and preload_full_workflow, whichever nodes of the
\* copy are rewritten and however the POST ends.
C20_Unaliased ==
    [][GraphOf(rewrite'.workflow, heap') = GraphOf(rewrite.workflow, heap)]_vars

\* a preload rewrite has changed a node of its copy, the POST has failed, and
\* the graph submitted is not the graph given
C20_Witness ==
    /\ rewrite.pc = "done"
    /\ rewrite.kind = "preload"
    /\ rewrite.outcome = "error"
    /\ Len(rewrite.workflow) = 2
    /\ rewrite.sent # GraphOf(rewrite.workflow, heap)

\* the rewrite has been applied to the copy
Rewritten(kind) == rewrite.kind = kind /\ rewrite.pc \in {"rewritten", "done"}
\* the node dicts of the given graph and of its copy, by position
OrigNode(i) == heap[rewrite.workflow[i].ref]
CopyNode(i) == heap[rewrite.wf_copy[i].ref]
\* the given graph has a LoadImage node "10"
PreferredTarget ==
    /\ HasId(rewrite.workflow, "10")
    /\ heap[RefOf(rewrite.workflow, "10")].class_type = "LoadImage"
\* the positions of the LoadImage nodes of the given graph
LoadImages == {i \in 1..Len(rewrite.workflow) : OrigNode(i).class_type = "LoadImage"}

\* C21: in the image rewrite of a graph whose node "10" is a LoadImage node,
\* every other node of the copy, and of the graph submitted, equals its
\* original, the LoadImage nodes that come before node "10" included.
C21_OnlyPreferred ==
    (Rewritten("image") /\ PreferredTarget)
    => \A i \in 1..Len(rewrite.workflow) :
          rewrite.workflow[i].id # "10"
          => /\ CopyNode(i) = OrigNode(i)
             /\ rewrite.pc = "done" => rewrite.sent[i].node = OrigNode(i)

\* the graph is a LoadImage node "5" followed by a LoadImage node "10", both
\* with an image input; node "10" of the graph submitted holds the uploaded
\* file's name
C21_Witness ==
    /\ Rewritten("image") /\ rewrite.pc = "done"
    /\ Len(rewrite.workflow) = 2
    /\ rewrite.workflow[1].id = "5" /\ rewrite.workflow[2].id = "10"
    /\ LoadImages = {1, 2}
    /\ DictHas(OrigNode(1).inputs, "image")
    /\ rewrite.sent[2].node # OrigNode(2)
    /\ rewrite.sent[2].node.inputs[1].value = Str(FilenameOf("image"))

\* C22: in the image rewrite of a graph that has a LoadImage node but whose
\* node "10" is absent or not a LoadImage node, the image input of the first
\* LoadImage node in iteration order is the target filename and every other
\* node equals its original.
C22_Fallback ==
    (Rewritten("image") /\ ~PreferredTarget /\ LoadImages # {})
    => LET first == CHOOSE i \in LoadImages : \A j \in LoadImages : i <= j
       IN  /\ \E k \in 1..Len(CopyNode(first).inputs) :
                 /\ CopyNode(first).inputs[k].key = "image"
                 /\ CopyNode(first).inputs[k].value = Str(FilenameOf("image"))
           /\ \A i \in 1..Len(rewrite.workflow) : i # first => CopyNode(i) = OrigNode(i)

\* two LoadImage nodes, neither with id "10": the first one was rewritten
C22_Witness ==
    /\ Rewritten("image") /\ rewrite.pc = "done"
    /\ ~HasId(rewrite.workflow, "10")
    /\ LoadImages = {1, 2}
    /\ rewrite.sent[1].node # OrigNode(1)
    /\ rewrite.sent[2].node = OrigNode(2)

\* the rewrite rule of the call finds no node to rewrite in the given graph
NoTarget ==
    \/ rewrite.kind = "image" /\ LoadImages = {}
    \/ /\ rewrite.kind = "video"
       /\ ~(/\ HasId(rewrite.workflow, "2")
            /\ heap[RefOf(rewrite.workflow, "2")].class_type \in VideoLoaders)

\* C23: when the rule finds no node to rewrite, the rewrite still ends, the
\* copy equals the given graph, and the graph submitted is the given graph.
C23_NoTargetSubmits ==
    /\ [](NoTarget =>
            /\ rewrite.pc = "rewritten"
                  => GraphOf(rewrite.wf_copy, heap) = GraphOf(rewrite.workflow, heap)
            /\ rewrite.pc = "done" => rewrite.sent = GraphOf(rewrite.workflow, heap))
    /\ [][(NoTarget /\ rewrite.pc = "copied") => rewrite'.pc = "rewritten"]_vars
    /\ [][(NoTarget /\ rewrite.pc = "rewritten") => rewrite'.pc = "done"]_vars

\* a video rewrite of a graph whose node "2" has a video input but is not a
\* video loader has submitted the graph as it was given
C23_Witness ==
    /\ rewrite.kind = "video" /\ rewrite.pc = "done"
    /\ NoTarget
    /\ HasId(rewrite.workflow, "2")
    /\ DictHas(heap[RefOf(rewrite.workflow, "2")].inputs, "video")
    /\ rewrite.sent = GraphOf(rewrite.workflow, heap)

\* C24: load_balancer.add_server of a registered address leaves the registry
\* as it is, with the record's availability, queue lengths, current_tasks
\* and error_count, and of a new address appends a record that is available
\* with every counter 0; tool_pool.add_server leaves the tools as they are,
\* client_id included, when the address has one.
C24_AddIdempotent ==
    /\ [][\A t \in admin_tasks :
            (t.op = "add" /\ t.pc = "lb" /\ t \notin admin_tasks')
            => IF Has(servers, t.addr)
               THEN servers' = servers
               ELSE /\ Len(servers') = Len(servers) + 1
                    /\ SubSeq(servers', 1, Len(servers)) = servers
                    /\ servers'[Len(servers')] =
                          [server_address |-> t.addr, is_available |-> TRUE,
                           queue_remaining |-> 0, queue_pending |-> 0,
                           current_tasks |-> 0, error_count |-> 0]]_vars
    /\ [][\A t \in admin_tasks :
            (t.op = "add" /\ t.pc = "pool" /\ t \notin admin_tasks' /\ t.addr \in DOMAIN tools)
            => tools' = tools]_vars

\* add_server has found its address registered, and the record still is
\* unavailable, with its error count, a queue length and a job in flight
C24_Witness ==
    \E t \in admin_tasks :
        /\ t.op = "add" /\ t.pc = "pool" /\ t.found
        /\ Has(servers, t.addr)
        /\ ~Get(servers, t.addr).is_available
        /\ Get(servers, t.addr).error_count = max_error_count
        /\ Get(servers, t.addr).queue_remaining > 0
        /\ Get(servers, t.addr).current_tasks > 0

C26_UnavailableOnlyAtThreshold ==
    \A i \in 1..Len(servers) :
        ~servers[i].is_available => servers[i].error_count >= max_error_count

\* one backend is one failed probe short of the threshold and available,
\* another has reached the threshold and is unavailable
C26_Witness ==
    \E i, j \in 1..Len(servers) :
        /\ servers[i].error_count = max_error_count - 1
        /\ servers[i].is_available
        /\ servers[j].error_count = max_error_count
        /\ ~servers[j].is_available

\* the calls of run_workflow_with_image among the calls of a request
DriverCalls(r) == SelectSeq(req[r].calls, LAMBDA c : c \in {"prompt", "ws", "history"})

\* C27: the driver calls of a request are a prefix of POST /prompt, the
\* websocket watch, GET /history, each made once; the watch is made only
\* with the prompt id of the POST, history is fetched only from the state
\* the completed watch leads to, and a watch that returned false ends the
\* run with the timeout error (a 500) and without a history call.
C27_DriverOrder ==
    /\ [](\A r \in Requests :
            /\ DriverCalls(r) \in {<<>>, <<"prompt">>, <<"prompt", "ws">>,
                                   <<"prompt", "ws", "history">>}
            /\ Len(DriverCalls(r)) >= 2 => req[r].prompt_id # None
            /\ req[r].pc = "watch" => DriverCalls(r) = <<"prompt">>
            /\ req[r].pc = "history"
                  => (DriverCalls(r) = <<"prompt", "ws">> /\ req[r].result = None)
            /\ req[r].result = "timeout"
                  => /\ DriverCalls(r) = <<"prompt", "ws">>
                     /\ req[r].pc \in {"dec", "done"}
                     /\ req[r].pc = "done" => req[r].status = 500)
    /\ [][\A r \in Requests :
            LET before == req[r].pc
                after  == req'[r].pc
            IN  /\ (after = "watch" /\ before # "watch") => before = "submit"
                /\ (after = "history" /\ before # "history") => before = "watch"
                /\ (after = "submit" /\ before # "submit") => before = "inc"]_vars

\* one request has ended in the timeout error after its watch, another has
\* gone through the POST, the watch and the history call
C27_Witness ==
    \E r, q \in Requests :
        /\ req[r].pc = "done" /\ req[r].result = "timeout" /\ req[r].status = 500
        /\ req[r].calls = <<"inc", "prompt", "ws", "dec">>
        /\ req[q].pc = "done" /\ req[q].result = "success"
        /\ req[q].calls = <<"inc", "prompt", "ws", "history", "view", "dec">>

\* C28: a load_template call of mode video sets the pool's workflow and the
\* workflow of every tool, submits no preload job, leaves the preloaded flag
\* of every tool and the registry as they are, and answers success.
C28_VideoNoPreload ==
    /\ [](loader.mode = "video"
            => /\ loader.pc \in {"load", "done"}
               /\ loader.targets = {}
               /\ \A a \in AllAddrs : loader.results[a] = None)
    /\ [][(loader.mode = "video" /\ loader.pc = "load" /\ loader'.pc # "load")
          => /\ workflow' = loader.template
             /\ current_template' = loader.template
             /\ DOMAIN tools' = DOMAIN tools
             /\ \A a \in DOMAIN tools :
                   /\ tools'[a].workflow = loader.template
                   /\ tools'[a].preloaded = tools[a].preloaded
                   /\ tools'[a].client_id = tools[a].client_id
             /\ servers' = servers
             /\ loader'.pc = "done"
             /\ loader'.status = 200]_vars

\* a video-mode load of the second template has answered; one tool still
\* carries the preloaded flag of the image-mode load before it, the other
\* still has none
C28_Witness ==
    /\ loader.pc = "done" /\ loader.mode = "video" /\ loader.status = 200
    /\ loader.template = "t2"
    /\ workflow = "t2"
    /\ \E a, b \in DOMAIN tools : tools[a].preloaded /\ ~tools[b].preloaded

\* C29: between the locked blocks of load_workflow, get_tool_for_request and
\* add_server, once a workflow has been loaded every tool of the pool holds
\* the pool's workflow, and current_template is the template it was read
\* from.
C29_Synced ==
    workflow # None
    => /\ \A a \in DOMAIN tools : tools[a].workflow = workflow
       /\ current_template = workflow

\* a request was handed the tool of the added address with the first
\* template; load_template has replaced it by the second since
C29_Witness ==
    /\ workflow = "t2"
    /\ "C" \in DOMAIN tools
    /\ \E r \in Requests :
          /\ req[r].pc = "submit"
          /\ req[r].server = "C"
          /\ req[r].bound_wf = "t1"

\* C30: the pool keeps the tool of an address once it has one, with its
\* client_id; get_tool_for_request leaves with a tool for the address it was
\* given, creating it when add_server has not yet done so; and no two
\* addresses have the same client_id.
C30_OneBinding ==
    /\ [][\A a \in DOMAIN tools :
            a \in DOMAIN tools' /\ tools'[a].client_id = tools[a].client_id]_vars
    /\ [][\A r \in Requests :
            (req[r].pc = "bind" /\ req'[r].pc # "bind") => req[r].server \in DOMAIN tools']_vars
    /\ [](\A a, b \in DOMAIN tools : tools[a].client_id = tools[b].client_id => a = b)

\* a request was handed a tool for the new address, which
\* get_tool_for_request had to create: the one add_server call made so far
\* has registered the address and not yet reached the block that creates the
\* tool
C30_Witness ==
    /\ admin_calls = 1
    /\ \E t \in admin_tasks : t.op = "add" /\ t.addr = "C" /\ t.pc = "pool"
    /\ "C" \in DOMAIN tools
    /\ \E r \in Requests : req[r].pc = "inc" /\ req[r].server = "C"

\* the position of the node the image rewrite chooses, when there is one
ImageChosen ==
    IF PreferredTarget
    THEN CHOOSE i \in 1..Len(rewrite.workflow) : rewrite.workflow[i].id = "10"
    ELSE CHOOSE i \in LoadImages : \A j \in LoadImages : i <= j

\* C32: on the node the image rewrite chooses, by the rule for node "10" or
\* by the fallback rule, every inputs entry whose value is a string that
\* ends in .png or .jpg or contains pasted/ or input holds the target
\* filename afterwards, and the key image exists, with the target filename
\* when it was absent.
C32_Claim ==
    (Rewritten("image") /\ LoadImages # {})
    => LET orig == OrigNode(ImageChosen).inputs
           new  == CopyNode(ImageChosen).inputs
           name == Str(FilenameOf("image"))
       IN  /\ \A k \in 1..Len(orig) :
                 MatchesStr(orig[k].value)
                 => new[k] = [key |-> orig[k].key, value |-> name]
           /\ \E k \in 1..Len(new) :
                 /\ new[k].key = "image"
                 /\ ~DictHas(orig, "image") => new[k].value = name

\* the node at position i was rewritten entry by entry: node "10" of the
\* image rewrite, every LoadImage node of the preload rewrite
RewrittenInFull(i) ==
    \/ Rewritten("image") /\ PreferredTarget /\ rewrite.workflow[i].id = "10"
    \/ Rewritten("preload") /\ i \in LoadImages

\* C33: on a rewritten node, in every inputs entry whose value is a list the
\* string elements that end in .png or .jpg or contain pasted/ or input are
\* the target filename afterwards and every other element is where and what
\* it was.
C33_Claim ==
    \A i \in 1..Len(rewrite.workflow) :
        RewrittenInFull(i)
        => \A k \in 1..Len(OrigNode(i).inputs) :
              LET old == OrigNode(i).inputs[k].value
                  new == CopyNode(i).inputs[k].value
              IN  old.kind = "list"
                  => /\ new.kind = "list"
                     /\ Len(new.items) = Len(old.items)
                     /\ \A j \in 1..Len(old.items) :
                           new.items[j] = IF MatchesStr(old.items[j])
                                          THEN Str(FilenameOf(rewrite.kind))
                                          ELSE old.items[j]

\* C34: the image rewrite applied to a graph it has already rewritten
\* changes nothing: for the copy a call has rewritten, and for the given
\* graph with a target filename that the rules match and with one they do
\* not match.
C34_Idempotent ==
    (Rewritten("image") /\ rewrite.pc = "rewritten")
    => /\ run_workflow_with_image(rewrite.wf_copy, heap, FilenameOf("image")) = heap
       /\ \A name \in {<<"upload", ".png">>, <<"upload", ".webp">>, <<"input", "u">>} :
             LET graph == rewrite.workflow
                 once  == run_workflow_with_image(graph, SubSeq(heap, 1, Len(graph)), name)
             IN  run_workflow_with_image(graph, once, name) = once

\* the image rewrite has changed the LoadImage node "10" of its copy, a node
\* with a string entry and a list entry, and the copy is not yet submitted
C34_Witness ==
    /\ Rewritten("image") /\ rewrite.pc = "rewritten"
    /\ PreferredTarget
    /\ CopyNode(ImageChosen) # OrigNode(ImageChosen)
    /\ \E k \in 1..Len(OrigNode(ImageChosen).inputs) :
          OrigNode(ImageChosen).inputs[k].value.kind = "list"

\* C35: the video rewrite changes at most node "2", and only when it is a
\* LoadVideo, VHS_LoadVideo or LoadVideoPath node: the target filename goes
\* to the key video when the node has it, else to video_path when it has
\* that, else to a new key video; every other entry and every other node is
\* what it was.
C35_VideoRule ==
    Rewritten("video")
    => \A i \in 1..Len(rewrite.workflow) :
          LET old  == OrigNode(i)
              new  == CopyNode(i)
              name == Str(FilenameOf("video"))
              key  == IF DictHas(old.inputs, "video") THEN "video"
                      ELSE IF DictHas(old.inputs, "video_path") THEN "video_path"
                      ELSE "video"
          IN  IF /\ rewrite.workflow[i].id = "2"
                 /\ old.class_type \in {"LoadVideo", "VHS_LoadVideo", "LoadVideoPath"}
              THEN /\ new.class_type = old.class_type
                   /\ \A k \in 1..Len(old.inputs) :
                         new.inputs[k] = IF old.inputs[k].key = key
                                         THEN [key |-> key, value |-> name]
                                         ELSE old.inputs[k]
                   /\ IF DictHas(old.inputs, key)
                      THEN Len(new.inputs) = Len(old.inputs)
                      ELSE new.inputs = Append(old.inputs, [key |-> "video", value |-> name])
              ELSE new = old

\* the video rewrite has put the filename under video_path of the loader
\* node "2", which has no key video, and has left another video loader alone
C35_Witness ==
    /\ Rewritten("video") /\ rewrite.pc = "done"
    /\ Len(rewrite.workflow) = 2
    /\ \A i \in 1..2 : OrigNode(i).class_type = "VHS_LoadVideo"
    /\ \E i \in 1..2 :
          /\ rewrite.workflow[i].id = "2"
          /\ OrigNode(i).inputs = <<[key |-> "video_path", value |-> Str(<<"old", ".jpg">>)]>>
          /\ rewrite.sent[i].node.inputs =
                <<[key |-> "video_path", value |-> Str(FilenameOf("video"))]>>
    /\ \E i \in 1..2 :
          /\ rewrite.workflow[i].id # "2"
          /\ DictHas(OrigNode(i).inputs, "video")
          /\ rewrite.sent[i].node = OrigNode(i)

\* C36: the preload rewrite gives every LoadImage node of the copy what the
\* image rewrite gives its preferred node "10" when handed the placeholder
\* filename, whatever the node's id and position, and leaves every other
\* node as it was.
C36_PreloadEveryLoadImage ==
    Rewritten("preload")
    => \A i \in 1..Len(rewrite.workflow) :
          CopyNode(i) =
             IF OrigNode(i).class_type = "LoadImage"
             THEN run_workflow_with_image(<<[id |-> "10", ref |-> 1]>>, <<OrigNode(i)>>,
                                          FilenameOf("preload"))[1]
             ELSE OrigNode(i)

\* a preload has rewritten two LoadImage nodes, neither of them node "10",
\* and both now differ from the template's
C36_Witness ==
    /\ Rewritten("preload") /\ rewrite.pc = "done"
    /\ Len(rewrite.workflow) = 2
    /\ \A i \in 1..2 :
          /\ rewrite.workflow[i].id # "10"
          /\ OrigNode(i).class_type = "LoadImage"
          /\ rewrite.sent[i].node # OrigNode(i)
          /\ \E k \in 1..Len(rewrite.sent[i].node.inputs) :
                rewrite.sent[i].node.inputs[k] =
                   [key |-> "image", value |-> Str(FilenameOf("preload"))]

\* C40: a rewrite made for process_video is the image rewrite with the
\* uploaded image's filename: the copy it submits is the one
\* run_workflow_with_image gives, only a LoadImage node differs from the
\* template's, the node the image rule chooses holds the filename under
\* image, and no node of a video loader class is modified.
C40_VideoRequestImageRule ==
    (rewrite.caller = "process_video" /\ rewrite.pc \in {"rewritten", "done"})
    => /\ rewrite.kind = "image"
       /\ \A i \in 1..Len(rewrite.workflow) :
             /\ CopyNode(i) # OrigNode(i) => OrigNode(i).class_type = "LoadImage"
             /\ OrigNode(i).class_type \in {"LoadVideo", "VHS_LoadVideo", "LoadVideoPath"}
                => CopyNode(i) = OrigNode(i)
       /\ LoadImages # {}
          => \E k \in 1..Len(CopyNode(ImageChosen).inputs) :
                CopyNode(ImageChosen).inputs[k] =
                   [key |-> "image", value |-> Str(<<"upload", ".png">>)]

\* process_video has submitted a graph whose node "2" is a video loader,
\* untouched, next to a LoadImage node that now holds the upload
C40_Witness ==
    /\ rewrite.caller = "process_video" /\ rewrite.pc = "done"
    /\ Len(rewrite.workflow) = 2
    /\ \E i, j \in 1..2 :
          /\ rewrite.workflow[i].id = "2"
          /\ OrigNode(i).class_type = "VHS_LoadVideo"
          /\ DictHas(OrigNode(i).inputs, "video")
          /\ rewrite.sent[i].node = OrigNode(i)
          /\ OrigNode(j).class_type = "LoadImage"
          /\ rewrite.sent[j].node # OrigNode(j)
          /\ DictHas(rewrite.sent[j].node.inputs, "image")

\* the records of all addresses but addr are the same before and after the step
OthersKept(addr) ==
    \A a \in Addrs \ {addr} :
        /\ Has(servers', a) <=> Has(servers, a)
        /\ Has(servers, a) => Get(servers', a) = Get(servers, a)

\* C37: increment_task, decrement_task and remove_server change no record
\* of another address, and called with an address that is not registered
\* they leave the registry as it is: no record appears, a request whose
\* backend was removed decrements nothing, a second remove_server changes
\* nothing.
C37_AbsentNoOp ==
    [][/\ \A r \in Requests :
             (req[r].pc \in {"inc", "dec"} /\ req'[r].pc # req[r].pc)
             => /\ OthersKept(req[r].server)
                /\ ~Has(servers, req[r].server) => servers' = servers
       /\ \A t \in admin_tasks :
             (t.op = "remove" /\ t \notin admin_tasks')
             => /\ OthersKept(t.addr)
                /\ ~Has(servers', t.addr)
                /\ ~Has(servers, t.addr) => servers' = servers]_vars

\* a request has finished and decremented after its backend was removed,
\* and the address is still not registered
C37_Witness ==
    \E r \in Requests :
        /\ req[r].pc = "done"
        /\ req[r].dec_absent
        /\ req[r].server # None
        /\ ~Has(servers, req[r].server)

\* C38: while shutdown has not been signalled the health check thread has
\* not ended, and under a fair scheduler every backend that stays
\* registered has a probe outcome applied again and again, whatever
\* /servers/add and /servers/remove calls interleave with the loop.
C38_Claim ==
    /\ [](running => hc_pc \notin {"exited", "crashed"})
    /\ \A a \in Addrs :
          []<>(\/ ~running
               \/ ~Has(servers, a)
               \/ hc_pc = "apply" /\ Head(hc_addrs) = a)

\* C39: a call of _wait_for_prompt_exec whose job the backend has completed,
\* its completion signal emitted before the deadline, does not return
\* false, also when the signal went out between the POST and the opening
\* of the websocket.
C39_Claim ==
    (watch.pc = "returned" /\ watch.emitted) => watch.result = "true"

\* thread t owns lock l; t is at an acquire of a lock another thread owns
Holds(t, l) == locking.lock[l].owner = t
Blocked(t) ==
    /\ Running(t)
    /\ NextOp(t).op = "acquire"
    /\ locking.lock[NextOp(t).lock].owner \notin {None, t}

\* C31: no thread owns the registry's lock and the pool's lock at once, no
\* thread owns a lock while it is in a network call, and the owner of a
\* lock is never itself waiting for a lock: whatever the interleaving of a
\* request, the health check, add_server, remove_server and load_template,
\* no set of threads waits for each other.
C31_NoNestedLocks ==
    \A t \in LockThreads :
        /\ ~(Holds(t, "registry") /\ Holds(t, "pool"))
        /\ (Running(t) /\ NextOp(t).op = "network") => \A l \in LockNames : ~Holds(t, l)
        /\ (\E l \in LockNames : Holds(t, l)) => ~Blocked(t)
        /\ ~Running(t) => \A l \in LockNames : ~Holds(t, l)

\* the request holds the registry's lock inside get_tool_for_request,
\* add_server holds the pool's, remove_server waits for the registry's, and
\* the health check and load_template are in their network calls
C31_Witness ==
    /\ Holds("process_image", "registry") /\ locking.pc["process_image"] = 4
    /\ Holds("add_server", "pool")
    /\ Blocked("remove_server")
    /\ NextOp("check_loop").op = "network"
    /\ Running("load_template") /\ NextOp("load_template").op = "network"

====
